---- MODULE Spec2Model ----
(***************************************************************************)
(* CogniMap: the tree store (the `nodes` state of App), its layout engine, *)
(* its visibility resolver, the mutation handlers and the generation       *)
(* orchestrator (handleLearnNode) with its provider calls in flight.       *)
(*                                                                         *)
(* Strings are sequences of one-character strings (a word that holds no    *)
(* digit, dot or blank is written as one token).  Ids are the integers     *)
(* 1, 2, ... in the order generateId hands them out; 0 stands for null.    *)
(* An absent (undefined) height is 0; an absent or empty summary/details   *)
(* string is <<>> (both are falsy in the code); isLoading undefined is     *)
(* FALSE.                                                                  *)
(*                                                                         *)
(* One action is the code a handler or a continuation runs between two     *)
(* suspension points (an await on the provider, a delay).  An invocation   *)
(* of handleLearnNode is a record of `tasks`; the `nodes` array its        *)
(* closure captured is kept in it for as long as the code still reads it.  *)
(* generateId is taken never to repeat an id.  Saving and loading (JSON)   *)
(* keep every field the model holds; a load puts fresh objects into the    *)
(* store, which `gen` records.                                             *)
(***************************************************************************)
EXTENDS Integers, Sequences, FiniteSets, TLC

(* ------------------------------ bounds --------------------------------- *)
\* ids generateId may hand out in one run
MaxIds == 6
\* handler invocations by the user in one run (generations included)
MaxUserActs == 2

(* --------------------------- program constants ------------------------- *)
INDENT_X == 80
GAP_Y == 40
HeightMinimized == 80
HeightRoot == 180
HeightDetail == 550
HeightLearningPoints == 320
HeightSummary == 260
HeightDefault == 120
\* chapterNodes.slice(0, 3)
WaterfallLimit == 3

NullId == 0
\* an id no node ever has
AbsentId == MaxIds + 1

\* positions a root is created at or dragged to (viewport dependent in the code)
RootPositions == {[x |-> 400, y |-> 100], [x |-> 1000, y |-> 60]}
InitialRootPosition == [x |-> 400, y |-> 100]
ZeroPosition == [x |-> 0, y |-> 0]

TitleTopikUtama == <<"Topik Utama">>
TitleTopikBaru == <<"Topik Baru">>
TitleNodeBaru == <<"Node Baru">>
TitleGagalMemuat == <<"Gagal Memuat">>
\* what the user types into the title editor
EditTitles == {<<"e">>}
\* titles the provider answers with
ProviderTitles == {<<"t">>}
\* brief descriptions / explanations the provider answers with
ProviderTexts == {<<"s">>}
\* learning point strings the provider answers with
ProviderPoints == {<<"p">>}

\* nodes of a saved map the layout and the visibility resolver are studied on
MaxLayoutNodes == 4

\* the longest text the provider answers with
MaxTextLen == 3

(* ------------------------------ helpers -------------------------------- *)
SeqIds(ns) == {ns[i].id : i \in 1..Len(ns)}

HasId(ns, id) == \E i \in 1..Len(ns) : ns[i].id = id

\* Array.prototype.findIndex, 1-based; 0 when absent
FindIndex(ns, id) ==
  IF HasId(ns, id)
  THEN CHOOSE i \in 1..Len(ns) : ns[i].id = id /\ \A j \in 1..(i - 1) : ns[j].id # id
  ELSE 0

\* Array.prototype.find; only used where the id is present
Find(ns, id) == ns[FindIndex(ns, id)]

MapSeq(ns, F(_)) == [i \in 1..Len(ns) |-> F(ns[i])]

\* prefix of at most n elements: Array.prototype.slice(0, n)
Slice(s, n) == SubSeq(s, 1, IF Len(s) < n THEN Len(s) ELSE n)

NoData ==
  [summary |-> <<>>, details |-> <<>>, bulletPoints |-> <<>>,
   hasLearningPoints |-> FALSE, learningPoints |-> <<>>]

INITIAL_ROOT ==
  [id |-> 1, parentId |-> NullId, title |-> TitleTopikUtama,
   position |-> InitialRootPosition, level |-> 0, nodeType |-> "root",
   collapsed |-> FALSE, contentMinimized |-> TRUE, height |-> HeightRoot,
   isLoading |-> FALSE, data |-> NoData]

(* --------------------------- layout engine ----------------------------- *)
getNodeHeight(node) ==
  IF node.contentMinimized THEN HeightMinimized
  ELSE IF node.nodeType = "root" THEN HeightRoot
  ELSE IF node.nodeType = "detail" THEN HeightDetail
  ELSE IF node.data.hasLearningPoints THEN HeightLearningPoints
  ELSE IF node.data.summary # <<>> THEN HeightSummary
  ELSE HeightDefault

IsRoot(n) == n.nodeType = "root" \/ n.parentId = NullId

\* roots, in node-set order
RootsOf(ns) == SelectSeq(ns, IsRoot)

\* childrenMap.get(id) || [] : the children of id, in node-set order
ChildrenOf(ns, id) == SelectSeq(ns, LAMBDA n : n.parentId # NullId /\ n.parentId = id)

RECURSIVE layoutNode(_, _, _, _, _)
RECURSIVE layoutChildren(_, _, _, _, _, _)
\* variant: a node whose children stand at its own x
layoutNodeNoIndent(ns, nodeId, x, y, maps) ==
  IF ~HasId(ns, nodeId) THEN [ret |-> 0, maps |-> maps]
  ELSE
    LET node == Find(ns, nodeId)
        myHeight == getNodeHeight(node)
        m1 == (nodeId :> [position |-> [x |-> x, y |-> y], height |-> myHeight]) @@ maps
        children == ChildrenOf(ns, nodeId)
    IN IF node.collapsed THEN [ret |-> myHeight, maps |-> m1]
       ELSE IF children = <<>> THEN [ret |-> myHeight, maps |-> m1]
       ELSE layoutChildren(ns, children, x, y + myHeight + GAP_Y,
                           myHeight + GAP_Y, m1)

\* variant: a node whose children start right below it, without the gap
layoutNodeChildrenClose(ns, nodeId, x, y, maps) ==
  IF ~HasId(ns, nodeId) THEN [ret |-> 0, maps |-> maps]
  ELSE
    LET node == Find(ns, nodeId)
        myHeight == getNodeHeight(node)
        m1 == (nodeId :> [position |-> [x |-> x, y |-> y], height |-> myHeight]) @@ maps
        children == ChildrenOf(ns, nodeId)
    IN IF node.collapsed THEN [ret |-> myHeight, maps |-> m1]
       ELSE IF children = <<>> THEN [ret |-> myHeight, maps |-> m1]
       ELSE layoutChildren(ns, children, x + INDENT_X, y + myHeight,
                           myHeight + GAP_Y, m1)

\* maps: id -> [position, height] for the ids visited so far (positionMap, heightMap);
\* ret: the subtree footprint layoutNode returns
layoutNode(ns, nodeId, x, y, maps) ==
  IF ~HasId(ns, nodeId) THEN [ret |-> 0, maps |-> maps]
  ELSE
    LET node == Find(ns, nodeId)
        myHeight == getNodeHeight(node)
        m1 == (nodeId :> [position |-> [x |-> x, y |-> y], height |-> myHeight]) @@ maps
        children == ChildrenOf(ns, nodeId)
    IN IF node.collapsed THEN [ret |-> myHeight, maps |-> m1]
       ELSE IF children = <<>> THEN [ret |-> myHeight, maps |-> m1]
       ELSE layoutChildren(ns, children, x + INDENT_X, y + myHeight + GAP_Y,
                           myHeight + GAP_Y, m1)

RECURSIVE layoutChildrenNoGap(_, _, _, _, _, _)
\* variant: a loop that puts the next child right below the previous subtree
layoutChildrenNoGap(ns, children, childX, currentChildY, totalSubTreeHeight, maps) ==
  IF children = <<>> THEN [ret |-> totalSubTreeHeight, maps |-> maps]
  ELSE
    LET r == layoutNode(ns, Head(children).id, childX, currentChildY, maps)
        effectiveHeight == r.ret + GAP_Y
    IN layoutChildrenNoGap(ns, Tail(children), childX, currentChildY + r.ret,
                           totalSubTreeHeight + effectiveHeight, r.maps)

RECURSIVE layoutChildrenTight(_, _, _, _, _, _)
\* variant: a loop that leaves the gap out of the running total
layoutChildrenTight(ns, children, childX, currentChildY, totalSubTreeHeight, maps) ==
  IF children = <<>> THEN [ret |-> totalSubTreeHeight, maps |-> maps]
  ELSE
    LET r == layoutNode(ns, Head(children).id, childX, currentChildY, maps)
        effectiveHeight == r.ret + GAP_Y
    IN layoutChildrenTight(ns, Tail(children), childX, currentChildY + effectiveHeight,
                           totalSubTreeHeight + r.ret, r.maps)

layoutChildren(ns, children, childX, currentChildY, totalSubTreeHeight, maps) ==
  IF children = <<>> THEN [ret |-> totalSubTreeHeight, maps |-> maps]
  ELSE
    LET r == layoutNode(ns, Head(children).id, childX, currentChildY, maps)
        effectiveHeight == r.ret + GAP_Y
    IN layoutChildren(ns, Tail(children), childX, currentChildY + effectiveHeight,
                      totalSubTreeHeight + effectiveHeight, r.maps)

RECURSIVE layoutRootsShifted(_, _, _)
\* variant: a layout that places every root one gap below where it stands
layoutRootsShifted(ns, roots, maps) ==
  IF roots = <<>> THEN maps
  ELSE layoutRootsShifted(ns, Tail(roots),
         layoutNode(ns, Head(roots).id, Head(roots).position.x,
                    Head(roots).position.y + GAP_Y, maps).maps)

RECURSIVE layoutRoots(_, _, _)
layoutRoots(ns, roots, maps) ==
  IF roots = <<>> THEN maps
  ELSE layoutRoots(ns, Tail(roots),
         layoutNode(ns, Head(roots).id, Head(roots).position.x,
                    Head(roots).position.y, maps).maps)

EmptyMaps == [i \in {} |-> 0]

\* variant: a layout that returns only the nodes it has placed
computeSmartLayoutPlacedOnly(ns) ==
  LET maps == layoutRoots(ns, RootsOf(ns), EmptyMaps)
      placed == SelectSeq(ns, LAMBDA n : n.id \in DOMAIN maps)
  IN [i \in 1..Len(placed) |->
        [placed[i] EXCEPT !.position = maps[placed[i].id].position,
                          !.height = maps[placed[i].id].height]]

\* variant: a layout that writes the positions back but not the heights
computeSmartLayoutPositionsOnly(ns) ==
  LET maps == layoutRoots(ns, RootsOf(ns), EmptyMaps)
  IN [i \in 1..Len(ns) |->
        IF ns[i].id \in DOMAIN maps
        THEN [ns[i] EXCEPT !.position = maps[ns[i].id].position]
        ELSE ns[i]]

computeSmartLayout(ns) ==
  LET maps == layoutRoots(ns, RootsOf(ns), EmptyMaps)
  IN [i \in 1..Len(ns) |->
        IF ns[i].id \in DOMAIN maps
        THEN [ns[i] EXCEPT !.position = maps[ns[i].id].position,
                           !.height = maps[ns[i].id].height]
        ELSE ns[i]]

(* ------------------------- visibility resolver ------------------------- *)
RECURSIVE visibleSetFromAny(_, _, _)
\* variant: a traversal that also goes below a collapsed node
visibleSetFromAny(ns, queue, visibleSet) ==
  IF queue = <<>> THEN visibleSet
  ELSE
    LET current == Head(queue)
        children == SelectSeq(ns, LAMBDA n : n.parentId = current.id)
    IN visibleSetFromAny(ns, Tail(queue) \o children, visibleSet \cup SeqIds(children))

RECURSIVE visibleSetFrom(_, _, _)
visibleSetFrom(ns, queue, visibleSet) ==
  IF queue = <<>> THEN visibleSet
  ELSE
    LET current == Head(queue)
    IN IF current.id \in visibleSet /\ ~current.collapsed
       THEN LET children == SelectSeq(ns, LAMBDA n : n.parentId = current.id)
            IN visibleSetFrom(ns, Tail(queue) \o children, visibleSet \cup SeqIds(children))
       ELSE visibleSetFrom(ns, Tail(queue), visibleSet)

visibleNodes(ns) ==
  LET roots == RootsOf(ns)
      visibleSet == visibleSetFrom(ns, roots, SeqIds(roots))
  IN SelectSeq(ns, LAMBDA n : n.id \in visibleSet)

(* ------------------- mutation handlers as transforms ------------------- *)
SetWhere(ns, id, F(_)) == [i \in 1..Len(ns) |-> IF ns[i].id = id THEN F(ns[i]) ELSE ns[i]]

\* variant: a drag that runs the layout first and writes the position after it
updatePositionAfterLayout(ns, id, newPos) ==
  SetWhere(computeSmartLayout(ns), id, LAMBDA n : [n EXCEPT !.position = newPos])

\* variant: a drag that writes the position and does not run the layout
updatePositionNoLayout(ns, id, newPos) ==
  SetWhere(ns, id, LAMBDA n : [n EXCEPT !.position = newPos])

updatePosition(ns, id, newPos) ==
  computeSmartLayout(SetWhere(ns, id, LAMBDA n : [n EXCEPT !.position = newPos]))

NewRoot(newId, pos) ==
  [id |-> newId, parentId |-> NullId, title |-> TitleTopikBaru, position |-> pos,
   level |-> 0, nodeType |-> "root", collapsed |-> FALSE, contentMinimized |-> TRUE,
   height |-> HeightRoot, isLoading |-> FALSE, data |-> NoData]

addRoot(ns, newId, pos) == computeSmartLayout(Append(ns, NewRoot(newId, pos)))

\* variant: a progression that goes from chapter straight to detail
ChildTypeSkipping(parentType) ==
  IF parentType = "root" THEN "chapter" ELSE "detail"

ChildType(parentType) ==
  IF parentType = "root" THEN "chapter"
  ELSE IF parentType = "chapter" THEN "subchapter"
  ELSE "detail"

\* variant: a child created at its parent's level
NewChildSameLevel(parent, newId) ==
  [id |-> newId, parentId |-> parent.id, title |-> TitleNodeBaru,
   position |-> [x |-> parent.position.x + INDENT_X, y |-> parent.position.y + 100],
   level |-> parent.level, nodeType |-> ChildType(parent.nodeType),
   collapsed |-> FALSE, contentMinimized |-> TRUE, height |-> 0,
   isLoading |-> FALSE, data |-> NoData]

NewChild(parent, newId) ==
  [id |-> newId, parentId |-> parent.id, title |-> TitleNodeBaru,
   position |-> [x |-> parent.position.x + INDENT_X, y |-> parent.position.y + 100],
   level |-> parent.level + 1, nodeType |-> ChildType(parent.nodeType),
   collapsed |-> FALSE, contentMinimized |-> TRUE, height |-> 0,
   isLoading |-> FALSE, data |-> NoData]

\* variant: a toggle that only ever unfolds
toggleCollapseUnfoldOnly(ns, id) ==
  computeSmartLayout(SetWhere(ns, id, LAMBDA n : [n EXCEPT !.collapsed = FALSE]))

\* variant: a toggle that only ever folds
toggleCollapseFoldOnly(ns, id) ==
  computeSmartLayout(SetWhere(ns, id, LAMBDA n : [n EXCEPT !.collapsed = TRUE]))

toggleCollapse(ns, id) ==
  computeSmartLayout(SetWhere(ns, id, LAMBDA n : [n EXCEPT !.collapsed = ~n.collapsed]))

\* variant: a content toggle that does not run the layout afterwards
toggleContentNoLayout(ns, id) ==
  SetWhere(ns, id, LAMBDA n : [n EXCEPT !.contentMinimized = ~n.contentMinimized])

toggleContent(ns, id) ==
  computeSmartLayout(SetWhere(ns, id,
    LAMBDA n : [n EXCEPT !.contentMinimized = ~n.contentMinimized]))

\* variant: an add-child that leaves a collapsed parent collapsed
addChildKeepFolded(ns, parentId, newId) ==
  IF ~HasId(ns, parentId) THEN ns
  ELSE computeSmartLayout(Append(ns, NewChild(Find(ns, parentId), newId)))

\* the two queued updates of handleAddChild, applied in order
addChild(ns, parentId, newId) ==
  IF ~HasId(ns, parentId) THEN ns
  ELSE LET parent == Find(ns, parentId)
           added == computeSmartLayout(Append(ns, NewChild(parent, newId)))
       IN IF parent.collapsed THEN toggleCollapse(added, parentId) ELSE added

RECURSIVE deleteRecursive(_, _)
RECURSIVE deleteChildren(_, _)
deleteRecursive(nodeId, currentNodes) ==
  LET children == SelectSeq(currentNodes, LAMBDA n : n.parentId = nodeId)
      remaining == SelectSeq(currentNodes, LAMBDA n : n.id # nodeId)
  IN deleteChildren(children, remaining)

deleteChildren(children, remaining) ==
  IF children = <<>> THEN remaining
  ELSE deleteChildren(Tail(children), deleteRecursive(Head(children).id, remaining))

deleteNode(ns, id) == computeSmartLayout(deleteRecursive(id, ns))

editTitle(ns, id, newTitle) == SetWhere(ns, id, LAMBDA n : [n EXCEPT !.title = newTitle])

loadNodes(savedNodes) == computeSmartLayout(savedNodes)

(* ----------------------------- numbering -------------------------------- *)
DigitChars == <<"0", "1", "2", "3", "4", "5", "6", "7", "8", "9">>

\* String(n) for n >= 0
RECURSIVE NumberToString(_)
NumberToString(n) ==
  IF n < 10 THEN <<DigitChars[n + 1]>>
  ELSE NumberToString(n \div 10) \o <<DigitChars[(n % 10) + 1]>>

\* length of the longest prefix of s whose characters all lie in S
RECURSIVE PrefixLen(_, _)
PrefixLen(s, S) ==
  IF s = <<>> THEN 0
  ELSE IF Head(s) \notin S THEN 0
  ELSE 1 + PrefixLen(Tail(s), S)

DigitSet == {DigitChars[d] : d \in 1..10}

\* title.match(/^(\d+)\./) : the captured digits, or fallback when there is no match
chapterNumber(title, fallback) ==
  LET d == PrefixLen(title, DigitSet)
  IN IF d >= 1 /\ Len(title) > d /\ title[d + 1] = "." THEN SubSeq(title, 1, d)
     ELSE fallback

\* title.replace(/^[\d.]+\s*/, '')
cleanTitle(title) ==
  LET d == PrefixLen(title, DigitSet \cup {"."})
      rest == SubSeq(title, d + 1, Len(title))
      w == PrefixLen(rest, {" "})
  IN IF d = 0 THEN title ELSE SubSeq(rest, w + 1, Len(rest))

(* --------------------------- provider answers --------------------------- *)
\* how many entries the provider puts into one list it answers with
ChapterCounts == {0, 2, 4}
SubChapterCounts == {0, 1}
PointCounts == {0, 2}

SeqsOfLen(S, counts) == UNION {[1..k -> S] : k \in counts}

GeneratedChapters == [title : ProviderTitles, briefDescription : ProviderTexts]

GeneratedSubChapters ==
  [title : ProviderTitles, learningPoints : SeqsOfLen(ProviderPoints, PointCounts)]

ChapterAnswers == SeqsOfLen(GeneratedChapters, ChapterCounts)

SubChapterAnswers == SeqsOfLen(GeneratedSubChapters, SubChapterCounts)

GeneratedDetails ==
  [title : ProviderTitles, comprehensiveExplanation : ProviderTexts,
   corePoints : {<<p>> : p \in ProviderPoints}]

\* generateTopicTitle: the trimmed text, or "Topik Baru" for an empty text
TopicTitles == ProviderTitles \cup {TitleTopikBaru}

(* ------------------------ nodes the orchestrator builds ----------------- *)
ChapterNode(node, ch, index, newId) ==
  [id |-> newId, parentId |-> node.id,
   title |-> NumberToString(index) \o <<".", " ">> \o ch.title,
   position |-> ZeroPosition, level |-> node.level + 1, nodeType |-> "chapter",
   collapsed |-> TRUE, contentMinimized |-> TRUE, height |-> 0, isLoading |-> FALSE,
   data |-> [NoData EXCEPT !.summary = ch.briefDescription]]

\* variant: subchapters counted from zero
SubChapterNodeFromZero(parent, chapterNum, sub, index, newId) ==
  [id |-> newId, parentId |-> parent.id,
   title |-> chapterNum \o <<".">> \o NumberToString(index - 1) \o <<" ">>
               \o cleanTitle(sub.title),
   position |-> ZeroPosition, level |-> parent.level + 1, nodeType |-> "subchapter",
   collapsed |-> TRUE, contentMinimized |-> TRUE, height |-> 0, isLoading |-> FALSE,
   data |-> [NoData EXCEPT !.hasLearningPoints = TRUE,
                           !.learningPoints = sub.learningPoints]]

SubChapterNode(parent, chapterNum, sub, index, newId) ==
  [id |-> newId, parentId |-> parent.id,
   title |-> chapterNum \o <<".">> \o NumberToString(index) \o <<" ">>
               \o cleanTitle(sub.title),
   position |-> ZeroPosition, level |-> parent.level + 1, nodeType |-> "subchapter",
   collapsed |-> TRUE, contentMinimized |-> TRUE, height |-> 0, isLoading |-> FALSE,
   data |-> [NoData EXCEPT !.hasLearningPoints = TRUE,
                           !.learningPoints = sub.learningPoints]]

PlaceholderNode(node, point, newId) ==
  [id |-> newId, parentId |-> node.id, title |-> point, position |-> ZeroPosition,
   level |-> node.level + 1, nodeType |-> "detail", collapsed |-> FALSE,
   contentMinimized |-> TRUE, height |-> 0, isLoading |-> TRUE, data |-> NoData]

\* chapters.map((ch, index) => ...), ids taken from firstId on
chapterNodesOf(node, chapters, firstId) ==
  [k \in 1..Len(chapters) |-> ChapterNode(node, chapters[k], k, firstId + k - 1)]

subChapterNodesOf(parent, chapterNum, subChapters, firstId) ==
  [k \in 1..Len(subChapters) |->
     SubChapterNode(parent, chapterNum, subChapters[k], k, firstId + k - 1)]

\* variant: no fallback to the title when there are no learning points
pointsToCoverNoFallback(node) == node.data.learningPoints

\* node.data?.learningPoints || [], with node.title pushed when it is empty
pointsToCover(node) ==
  IF node.data.learningPoints = <<>> THEN <<node.title>> ELSE node.data.learningPoints

placeholdersOf(node, firstId) ==
  LET points == pointsToCover(node)
  IN [k \in 1..Len(points) |-> PlaceholderNode(node, points[k], firstId + k - 1)]

(* ------------------- orchestrator writes as transforms ------------------ *)
setLoading(ns, id, flag) == SetWhere(ns, id, LAMBDA n : [n EXCEPT !.isLoading = flag])

\* App.tsx 246-250: layout of the handler's own `nodes` plus the chapters
rootChaptersWrite(snapshot, chapterNodes, id, conciseTitle) ==
  editTitle(computeSmartLayout(snapshot \o chapterNodes), id, conciseTitle)

\* variant: a waterfall write that leaves the chapter folded as it is
waterfallWriteKeepFolded(prev, subNodes, chapterId) ==
  computeSmartLayout(SetWhere(prev \o subNodes, chapterId,
    LAMBDA n : [n EXCEPT !.isLoading = FALSE]))

\* App.tsx 282-287
waterfallWrite(prev, subNodes, chapterId) ==
  computeSmartLayout(SetWhere(prev \o subNodes, chapterId,
    LAMBDA n : [n EXCEPT !.isLoading = FALSE, !.collapsed = FALSE]))

\* variant: a catch branch that writes nothing
waterfallFailWriteNone(prev, chapterId) == prev

\* App.tsx 291
waterfallFailWrite(prev, chapterId) == setLoading(prev, chapterId, FALSE)

\* variant: a waterfall over every chapter
nodesToProcessAll(chapterNodes) == chapterNodes

\* App.tsx 254
nodesToProcessOf(chapterNodes) == Slice(chapterNodes, WaterfallLimit)

\* App.tsx 325
chapterWrite(prev, newNodes) == computeSmartLayout(prev \o newNodes)

\* variant: an update that adds only the placeholder of the first point
placeholdersWriteFirstOnly(prev, placeholders) ==
  computeSmartLayout(prev \o Slice(placeholders, 1))

\* App.tsx 348
placeholdersWrite(prev, placeholders) == computeSmartLayout(prev \o placeholders)

\* variant: a write-back that puts a missing placeholder back as a new root
detailWriteUpsert(prev, id, detail) ==
  LET answered(n) == [n EXCEPT !.title = detail.title, !.isLoading = FALSE,
                               !.data = [NoData EXCEPT
                                           !.details = detail.comprehensiveExplanation,
                                           !.bulletPoints = detail.corePoints]]
  IN IF HasId(prev, id)
       THEN computeSmartLayout(SetWhere(prev, id, LAMBDA n : answered(n)))
       ELSE computeSmartLayout(Append(prev,
              answered([PlaceholderNode([id |-> NullId, level |-> 0], detail.title, id)
                          EXCEPT !.nodeType = "root", !.level = 0])))

\* App.tsx 354-370
detailWrite(prev, id, detail) ==
  computeSmartLayout(SetWhere(prev, id,
    LAMBDA n : [n EXCEPT !.title = detail.title, !.isLoading = FALSE,
                         !.data = [NoData EXCEPT
                                     !.details = detail.comprehensiveExplanation,
                                     !.bulletPoints = detail.corePoints]]))

\* variant: a failure write that leaves the placeholder loading
detailFailWriteStillLoading(prev, id) ==
  SetWhere(prev, id, LAMBDA n : [n EXCEPT !.title = TitleGagalMemuat])

\* App.tsx 373
detailFailWrite(prev, id) ==
  SetWhere(prev, id, LAMBDA n : [n EXCEPT !.isLoading = FALSE, !.title = TitleGagalMemuat])

(* -------------------------------- state -------------------------------- *)
VARIABLES
  nodes,    \* the `nodes` state of App: a sequence of NodeData records
  nextId,   \* the next id generateId hands out
  tasks,    \* the handleLearnNode invocations that started a generation, in order
  calls,    \* the provider calls in flight
  saved,    \* localStorage 'cognimap-save'
  gen,      \* which generation of objects the store holds (a load parses fresh ones)
  ops,      \* handler invocations by the user so far
  budget,   \* how many of them the run explores
  last      \* the step that led to this state

vars == <<nodes, nextId, tasks, calls, saved, gen, ops, budget, last>>

\* op: the handler or continuation that ran; arg: the id or the task it ran for;
\* item: the batch item it handled; ok: whether the provider answered; val: the answer
Last(op, arg, item, ok, val) == [op |-> op, arg |-> arg, item |-> item, ok |-> ok, val |-> val]

NewTask(kind, node, snapshot, phase, outcome, items) ==
  [kind |-> kind, id |-> node.id, level |-> node.level, title |-> node.title,
   snap |-> snapshot, gen |-> gen, phase |-> phase, outcome |-> outcome,
   alerted |-> FALSE, conciseTitle |-> <<>>, chapterIds |-> <<>>,
   items |-> items, i |-> 0]

\* what the waterfall and the detail batch keep of a node they built
Item(n) == [id |-> n.id, title |-> n.title, level |-> n.level]

Call(t, item, op) == [task |-> t, item |-> item, op |-> op]

\* the root invocations still holding their `nodes` closure for the write at 246
HoldsSnapshot(task) == task.kind = "root" /\ task.phase \in {"title", "chapters"}

\* the handlers are called with the id of a node of the store, or with one it lacks
ArgsFor(ns) == SeqIds(ns) \cup {AbsentId}

(* ----------------------- what a session starts from --------------------- *)
FreshStore == <<INITIAL_ROOT>>

\* the store an earlier session left after generating one chapter and, in the
\* waterfall, one subchapter with two learning points
GeneratedStore ==
  LET start == computeSmartLayout(FreshStore)
      chapters == chapterNodesOf(start[1],
                    <<[title |-> <<"t">>, briefDescription |-> <<"s">>]>>, 2)
      withChapters == rootChaptersWrite(start, chapters, 1, <<"t">>)
      subs == subChapterNodesOf(Item(chapters[1]), chapterNumber(chapters[1].title, <<"0">>),
                <<[title |-> <<"t">>, learningPoints |-> << <<"p">>, <<"p">> >>]>>, 3)
  IN waterfallWrite(withChapters, subs, 2)

\* localStorage at startup, 'cognimap-nodes' and 'cognimap-save': both absent, or
\* what an earlier session wrote and the map it saved at its start
\* (firstId: the ids 1 .. firstId - 1 are the ones the earlier sessions used)
Startups ==
  {[nodes |-> FreshStore, saved |-> [has |-> FALSE, nodes |-> <<>>], firstId |-> 2],
   [nodes |-> GeneratedStore, saved |-> [has |-> TRUE, nodes |-> FreshStore], firstId |-> 4]}

\* useState initialiser: every node of the persisted stores has contentMinimized
\* set, so the migration map leaves them as they are
Startup(acts) ==
  /\ \E s \in Startups :
       /\ nodes = computeSmartLayout(s.nodes)
       /\ saved = s.saved
       /\ nextId = s.firstId
  /\ budget = acts
  /\ tasks = <<>>
  /\ calls = {}
  /\ gen = 0
  /\ ops = 0
  /\ last = Last("Init", 0, 0, TRUE, <<>>)

Init == Startup(MaxUserActs)

(* ---------------------------- user handlers ----------------------------- *)
UserStep(op, arg, newNodes) ==
  /\ ops < budget
  /\ nodes' = newNodes
  /\ ops' = ops + 1
  /\ last' = Last(op, arg, 0, TRUE, <<>>)

\* last.val keeps the position the drag handed over, as <<x, y>>
HandleUpdatePosition(id, newPos) ==
  /\ ops < budget
  /\ nodes' = updatePosition(nodes, id, newPos)
  /\ ops' = ops + 1
  /\ last' = Last("UpdatePosition", id, 0, TRUE, <<newPos.x, newPos.y>>)
  /\ UNCHANGED <<nextId, tasks, calls, saved, gen, budget>>

HandleAddRoot(pos) ==
  /\ nextId <= MaxIds
  /\ UserStep("AddRoot", nextId, addRoot(nodes, nextId, pos))
  /\ nextId' = nextId + 1
  /\ UNCHANGED <<tasks, calls, saved, gen, budget>>

HandleAddChild(parentId) ==
  /\ HasId(nodes, parentId) => nextId <= MaxIds
  /\ UserStep("AddChild", parentId, addChild(nodes, parentId, nextId))
  /\ nextId' = IF HasId(nodes, parentId) THEN nextId + 1 ELSE nextId
  /\ UNCHANGED <<tasks, calls, saved, gen, budget>>

HandleDelete(id) ==
  /\ UserStep("Delete", id, deleteNode(nodes, id))
  /\ UNCHANGED <<nextId, tasks, calls, saved, gen, budget>>

HandleEdit(id, newTitle) ==
  /\ UserStep("Edit", id, editTitle(nodes, id, newTitle))
  /\ UNCHANGED <<nextId, tasks, calls, saved, gen, budget>>

HandleToggleCollapse(id) ==
  /\ UserStep("ToggleCollapse", id, toggleCollapse(nodes, id))
  /\ UNCHANGED <<nextId, tasks, calls, saved, gen, budget>>

HandleToggleContent(id) ==
  /\ UserStep("ToggleContent", id, toggleContent(nodes, id))
  /\ UNCHANGED <<nextId, tasks, calls, saved, gen, budget>>

SaveMap ==
  /\ UserStep("SaveMap", 0, nodes)
  /\ saved' = [has |-> TRUE, nodes |-> nodes]
  /\ UNCHANGED <<nextId, tasks, calls, gen, budget>>

\* a generation of objects no live closure holds
FreshGen ==
  CHOOSE g \in 0..MaxUserActs :
    /\ \A t \in 1..Len(tasks) : HoldsSnapshot(tasks[t]) => tasks[t].gen # g
    /\ \A h \in 0..(g - 1) : \E t \in 1..Len(tasks) : HoldsSnapshot(tasks[t]) /\ tasks[t].gen = h

LoadMap ==
  /\ UserStep("LoadMap", 0, IF saved.has THEN loadNodes(saved.nodes) ELSE nodes)
  /\ gen' = IF saved.has THEN FreshGen ELSE gen
  /\ UNCHANGED <<nextId, tasks, calls, saved, budget>>

(* ------------------------- generation: trigger -------------------------- *)
\* variant: a batch that fires the requests of all remaining items at once
loopCallsAll(t, items, k, op) == {Call(t, j, op) : j \in k..Len(items)}

\* the request the sequential loop of a batch issues when it reaches item k
loopCalls(t, items, k, op) ==
  IF k <= Len(items) THEN {Call(t, k, op)} ELSE {}

\* pointsToCover.push(node.title) writes into the array the node's data holds
pushTitle(ns, id, title) ==
  SetWhere(ns, id,
    LAMBDA n : IF n.data.hasLearningPoints /\ n.data.learningPoints = <<>>
               THEN [n EXCEPT !.data.learningPoints = <<title>>]
               ELSE n)

\* the closures that hold the same objects as the store see that write too
pushTitleInSnapshots(ts, id, title) ==
  [t \in 1..Len(ts) |->
     IF HoldsSnapshot(ts[t]) /\ ts[t].gen = gen
     THEN [ts[t] EXCEPT !.snap = pushTitle(ts[t].snap, id, title)]
     ELSE ts[t]]

\* variant: a learn that asks the provider for an explanation of any node
LearnNothingButAsk(id) ==
  /\ IF HasId(nodes, id) THEN Find(nodes, id).nodeType = "detail" ELSE TRUE
  /\ UserStep("LearnNothing", id, nodes)
  /\ calls' = calls \cup {Call(0, 0, "details")}
  /\ UNCHANGED <<nextId, tasks, saved, gen, budget>>

LearnNothing(id) ==
  /\ IF HasId(nodes, id) THEN Find(nodes, id).nodeType = "detail" ELSE TRUE
  /\ UserStep("LearnNothing", id, nodes)
  /\ UNCHANGED <<nextId, tasks, calls, saved, gen, budget>>

LearnRoot(id) ==
  /\ HasId(nodes, id)
  /\ Find(nodes, id).nodeType = "root"
  /\ ops < budget
  /\ tasks' = Append(tasks, NewTask("root", Find(nodes, id), nodes, "title", "pending", <<>>))
  /\ calls' = calls \cup {Call(Len(tasks) + 1, 0, "title")}
  /\ ops' = ops + 1
  /\ last' = Last("LearnRoot", id, 0, TRUE, <<>>)
  /\ UNCHANGED <<nodes, nextId, saved, gen, budget>>

LearnChapter(id) ==
  /\ HasId(nodes, id)
  /\ Find(nodes, id).nodeType = "chapter"
  /\ ops < budget
  /\ tasks' = Append(tasks, NewTask("chapter", Find(nodes, id), <<>>, "await", "pending", <<>>))
  /\ calls' = calls \cup {Call(Len(tasks) + 1, 0, "subchapters")}
  /\ ops' = ops + 1
  /\ last' = Last("LearnChapter", id, 0, TRUE, <<>>)
  /\ UNCHANGED <<nodes, nextId, saved, gen, budget>>

LearnSubchapter(id) ==
  /\ HasId(nodes, id)
  /\ Find(nodes, id).nodeType = "subchapter"
  /\ ops < budget
  /\ LET node == Find(nodes, id)
         placeholders == placeholdersOf(node, nextId)
         items == MapSeq(placeholders, Item)
     IN /\ nextId + Len(placeholders) - 1 <= MaxIds
        /\ nodes' = placeholdersWrite(pushTitle(nodes, id, node.title), placeholders)
        /\ nextId' = nextId + Len(placeholders)
        /\ tasks' = Append(pushTitleInSnapshots(tasks, id, node.title),
                           NewTask("subchapter", node, <<>>, "await", "resolved", items))
        /\ calls' = calls \cup loopCalls(Len(tasks) + 1, items, 1, "details")
  /\ ops' = ops + 1
  /\ last' = Last("LearnSubchapter", id, 0, TRUE, <<>>)
  /\ UNCHANGED <<saved, gen, budget>>

(* ------------------------- generation: answers -------------------------- *)
\* the closure is dropped once the invocation no longer reads it
Settle(task, phase, outcome) ==
  [task EXCEPT !.phase = phase, !.outcome = outcome, !.snap = <<>>]

TitleAnswer(t, conciseTitle) ==
  /\ Call(t, 0, "title") \in calls
  /\ nodes' = editTitle(nodes, tasks[t].id, conciseTitle)
  /\ tasks' = [tasks EXCEPT ![t].phase = "chapters", ![t].conciseTitle = conciseTitle]
  /\ calls' = (calls \ {Call(t, 0, "title")}) \cup {Call(t, 0, "chapters")}
  /\ last' = Last("TitleAnswer", t, 0, TRUE, conciseTitle)
  /\ UNCHANGED <<nextId, saved, gen, ops, budget>>

TitleError(t) ==
  /\ Call(t, 0, "title") \in calls
  /\ tasks' = [tasks EXCEPT ![t] = Settle(tasks[t], "failed", "rejected")]
  /\ calls' = calls \ {Call(t, 0, "title")}
  /\ last' = Last("TitleAnswer", t, 0, FALSE, <<>>)
  /\ UNCHANGED <<nodes, nextId, saved, gen, ops, budget>>

ChaptersAnswer(t, chapters) ==
  /\ Call(t, 0, "chapters") \in calls
  /\ LET task == tasks[t]
         chapterNodes == chapterNodesOf(task, chapters, nextId)
         nodesToProcess == nodesToProcessOf(MapSeq(chapterNodes, Item))
         written == rootChaptersWrite(task.snap, chapterNodes, task.id, task.conciseTitle)
     IN /\ nextId + Len(chapters) - 1 <= MaxIds
        /\ nodes' = IF nodesToProcess = <<>> THEN written
                    ELSE setLoading(written, nodesToProcess[1].id, TRUE)
        /\ nextId' = nextId + Len(chapters)
        /\ gen' = task.gen
        /\ tasks' = [tasks EXCEPT ![t] =
             [Settle(task, IF nodesToProcess = <<>> THEN "done" ELSE "await", "resolved")
                EXCEPT !.chapterIds = MapSeq(chapterNodes, LAMBDA n : n.id),
                       !.items = nodesToProcess]]
        /\ calls' = (calls \ {Call(t, 0, "chapters")})
                      \cup loopCalls(t, nodesToProcess, 1, "subchapters")
  /\ last' = Last("ChaptersAnswer", t, 0, TRUE, chapters)
  /\ UNCHANGED <<saved, ops, budget>>

ChaptersError(t) ==
  /\ Call(t, 0, "chapters") \in calls
  /\ tasks' = [tasks EXCEPT ![t] = Settle(tasks[t], "failed", "rejected")]
  /\ calls' = calls \ {Call(t, 0, "chapters")}
  /\ last' = Last("ChaptersAnswer", t, 0, FALSE, <<>>)
  /\ UNCHANGED <<nodes, nextId, saved, gen, ops, budget>>

\* variant: a loop that stays on the item it just handled and asks for it again
AfterItemRetry(t, k, op) ==
  /\ tasks' = [tasks EXCEPT ![t].phase = "delay"]
  /\ calls' = calls \ {Call(t, k, op)}

\* the loop body after the await, up to the pause
AfterItem(t, k, op) ==
  /\ tasks' = [tasks EXCEPT ![t].phase = "delay", ![t].i = tasks[t].i + 1]
  /\ calls' = calls \ {Call(t, k, op)}

WaterfallAnswer(t, k, subChapters) ==
  /\ tasks[t].kind = "root"
  /\ Call(t, k, "subchapters") \in calls
  /\ LET chNode == tasks[t].items[k]
         chapterNum == chapterNumber(chNode.title, <<"0">>)
         subNodes == subChapterNodesOf(chNode, chapterNum, subChapters, nextId)
     IN /\ nextId + Len(subChapters) - 1 <= MaxIds
        /\ nodes' = waterfallWrite(nodes, subNodes, chNode.id)
        /\ nextId' = nextId + Len(subChapters)
  /\ AfterItem(t, k, "subchapters")
  /\ last' = Last("WaterfallAnswer", t, k, TRUE, subChapters)
  /\ UNCHANGED <<saved, gen, ops, budget>>

WaterfallError(t, k) ==
  /\ tasks[t].kind = "root"
  /\ Call(t, k, "subchapters") \in calls
  /\ nodes' = waterfallFailWrite(nodes, tasks[t].items[k].id)
  /\ AfterItem(t, k, "subchapters")
  /\ last' = Last("WaterfallAnswer", t, k, FALSE, <<>>)
  /\ UNCHANGED <<nextId, saved, gen, ops, budget>>

ChapterAnswer(t, subChapters) ==
  /\ tasks[t].kind = "chapter"
  /\ Call(t, 0, "subchapters") \in calls
  /\ LET task == tasks[t]
         chapterNum == chapterNumber(task.title, <<"1">>)
         newNodes == subChapterNodesOf(task, chapterNum, subChapters, nextId)
     IN /\ nextId + Len(subChapters) - 1 <= MaxIds
        /\ nodes' = chapterWrite(nodes, newNodes)
        /\ nextId' = nextId + Len(subChapters)
        /\ tasks' = [tasks EXCEPT ![t] = Settle(task, "done", "resolved")]
  /\ calls' = calls \ {Call(t, 0, "subchapters")}
  /\ last' = Last("ChapterAnswer", t, 0, TRUE, subChapters)
  /\ UNCHANGED <<saved, gen, ops, budget>>

\* variant: a chapter branch that swallows the failure without telling anyone
ChapterErrorUnreported(t) ==
  /\ tasks[t].kind = "chapter"
  /\ Call(t, 0, "subchapters") \in calls
  /\ tasks' = [tasks EXCEPT ![t] = Settle(tasks[t], "done", "resolved")]
  /\ calls' = calls \ {Call(t, 0, "subchapters")}
  /\ last' = Last("ChapterAnswer", t, 0, FALSE, <<>>)
  /\ UNCHANGED <<nodes, nextId, saved, gen, ops, budget>>

ChapterError(t) ==
  /\ tasks[t].kind = "chapter"
  /\ Call(t, 0, "subchapters") \in calls
  /\ tasks' = [tasks EXCEPT ![t] =
       [Settle(tasks[t], "done", "resolved") EXCEPT !.alerted = TRUE]]
  /\ calls' = calls \ {Call(t, 0, "subchapters")}
  /\ last' = Last("ChapterAnswer", t, 0, FALSE, <<>>)
  /\ UNCHANGED <<nodes, nextId, saved, gen, ops, budget>>

DetailAnswer(t, k, detail) ==
  /\ tasks[t].kind = "subchapter"
  /\ Call(t, k, "details") \in calls
  /\ nodes' = detailWrite(nodes, tasks[t].items[k].id, detail)
  /\ AfterItem(t, k, "details")
  /\ last' = Last("DetailAnswer", t, k, TRUE, detail)
  /\ UNCHANGED <<nextId, saved, gen, ops, budget>>

DetailError(t, k) ==
  /\ tasks[t].kind = "subchapter"
  /\ Call(t, k, "details") \in calls
  /\ nodes' = detailFailWrite(nodes, tasks[t].items[k].id)
  /\ AfterItem(t, k, "details")
  /\ last' = Last("DetailAnswer", t, k, FALSE, <<>>)
  /\ UNCHANGED <<nextId, saved, gen, ops, budget>>

\* the pause between two items of a batch has elapsed: the loop goes on or ends
DelayElapsed(t) ==
  /\ tasks[t].phase = "delay"
  /\ LET task == tasks[t]
         k == task.i + 1
     IN IF k <= Len(task.items)
        THEN /\ nodes' = IF task.kind = "root" THEN setLoading(nodes, task.items[k].id, TRUE)
                         ELSE nodes
             /\ tasks' = [tasks EXCEPT ![t].phase = "await"]
             /\ calls' = calls \cup loopCalls(t, task.items, k,
                           IF task.kind = "root" THEN "subchapters" ELSE "details")
        ELSE /\ tasks' = [tasks EXCEPT ![t].phase = "done"]
             /\ UNCHANGED <<nodes, calls>>
  /\ last' = Last("DelayElapsed", t, 0, TRUE, <<>>)
  /\ UNCHANGED <<nextId, saved, gen, ops, budget>>

(* ----------------------------- specification ---------------------------- *)
TaskIds == 1..Len(tasks)

ItemsOf(t) == 1..Len(tasks[t].items)

Next ==
  \/ \E id \in ArgsFor(nodes), pos \in RootPositions : HandleUpdatePosition(id, pos)
  \/ \E pos \in RootPositions : HandleAddRoot(pos)
  \/ \E id \in ArgsFor(nodes) : HandleAddChild(id)
  \/ \E id \in ArgsFor(nodes) : HandleDelete(id)
  \/ \E id \in ArgsFor(nodes), newTitle \in EditTitles : HandleEdit(id, newTitle)
  \/ \E id \in ArgsFor(nodes) : HandleToggleCollapse(id)
  \/ \E id \in ArgsFor(nodes) : HandleToggleContent(id)
  \/ SaveMap
  \/ LoadMap
  \/ \E id \in ArgsFor(nodes) : LearnNothing(id)
  \/ \E id \in ArgsFor(nodes) : LearnRoot(id)
  \/ \E id \in ArgsFor(nodes) : LearnChapter(id)
  \/ \E id \in ArgsFor(nodes) : LearnSubchapter(id)
  \/ \E t \in TaskIds, title \in TopicTitles : TitleAnswer(t, title)
  \/ \E t \in TaskIds : TitleError(t)
  \/ \E t \in TaskIds, chapters \in ChapterAnswers : ChaptersAnswer(t, chapters)
  \/ \E t \in TaskIds : ChaptersError(t)
  \/ \E t \in TaskIds : \E k \in ItemsOf(t), subChapters \in SubChapterAnswers :
       WaterfallAnswer(t, k, subChapters)
  \/ \E t \in TaskIds : \E k \in ItemsOf(t) : WaterfallError(t, k)
  \/ \E t \in TaskIds, subChapters \in SubChapterAnswers : ChapterAnswer(t, subChapters)
  \/ \E t \in TaskIds : ChapterError(t)
  \/ \E t \in TaskIds : \E k \in ItemsOf(t), detail \in GeneratedDetails : DetailAnswer(t, k, detail)
  \/ \E t \in TaskIds : \E k \in ItemsOf(t) : DetailError(t, k)
  \/ \E t \in TaskIds : DelayElapsed(t)

Spec == Init /\ [][Next]_vars

(* ------------------- the delete button, three user acts ----------------- *)
\* MindMapNode.tsx 446 renders the delete button on every node but a root
DeleteButton(id) ==
  /\ HasId(nodes, id)
  /\ Find(nodes, id).nodeType # "root"
  /\ HandleDelete(id)

StartupDelete == Startup(MaxUserActs + 1)

NextDelete ==
  \/ \E id \in SeqIds(nodes) : DeleteButton(id)
  \/ \E id \in SeqIds(nodes) : LearnRoot(id)
  \/ \E id \in SeqIds(nodes) : LearnChapter(id)
  \/ \E t \in TaskIds, title \in ProviderTitles : TitleAnswer(t, title)
  \/ \E t \in TaskIds, chapters \in ChapterAnswers : ChaptersAnswer(t, chapters)
  \/ \E t \in TaskIds : \E k \in ItemsOf(t), subChapters \in SubChapterAnswers :
       WaterfallAnswer(t, k, subChapters)
  \/ \E t \in TaskIds, subChapters \in SubChapterAnswers : ChapterAnswer(t, subChapters)
  \/ \E t \in TaskIds : DelayElapsed(t)

SpecDelete == StartupDelete /\ [][NextDelete]_vars

(* ------------------- the provider operations, on their own --------------- *)
\* characters of a response text: blank, a letter, and the braces of a document
ResponseChars == {" ", "t", "{", "}"}

\* response.text: absent, or a text of up to MaxTextLen characters
Responses ==
  {[defined |-> FALSE, text |-> <<>>]} \cup
  {[defined |-> TRUE, text |-> s] : s \in UNION {[1..k -> ResponseChars] : k \in 0..MaxTextLen}}

\* if (response.text): a text that is there and not ''
Truthy(response) == response.defined /\ response.text # <<>>

RECURSIVE TrimEnd(_)
TrimEnd(s) ==
  IF s = <<>> THEN s
  ELSE IF s[Len(s)] = " " THEN TrimEnd(SubSeq(s, 1, Len(s) - 1)) ELSE s

\* String.prototype.trim
trim(s) ==
  LET w == PrefixLen(s, {" "})
  IN TrimEnd(SubSeq(s, w + 1, Len(s)))

Thrown == [ok |-> FALSE, value |-> <<>>]

Returned(v) == [ok |-> TRUE, value |-> v]

\* JSON.parse over the texts above: a document is { ... } with blanks around it
\* allowed; its entries are the letters between the braces. Anything else throws.
JSONparse(text) ==
  LET body == trim(text)
      inner == SubSeq(body, 2, Len(body) - 1)
  IN IF /\ Len(body) >= 2
        /\ body[1] = "{" /\ body[Len(body)] = "}"
        /\ \A i \in 1..Len(inner) : inner[i] \in {"t", " "}
     THEN Returned(SelectSeq(inner, LAMBDA c : c = "t"))
     ELSE Thrown

\* aiService.ts 27
generateTopicTitle(response) ==
  IF Truthy(response) THEN Returned(trim(response.text)) ELSE Returned(TitleTopikBaru)

\* variant: chapters that come back as an empty list when there is no text
generateChaptersLenient(response) ==
  IF Truthy(response) THEN JSONparse(response.text) ELSE Returned(<<>>)

\* aiService.ts 72-75
generateChapters(response) ==
  IF Truthy(response) THEN JSONparse(response.text) ELSE Thrown

\* aiService.ts 120-123
generateSubChapters(response) ==
  IF Truthy(response) THEN JSONparse(response.text) ELSE Thrown

\* aiService.ts 174-177
generateDetails(response) ==
  IF Truthy(response) THEN JSONparse(response.text) ELSE Thrown

\* the provider has answered with one of the responses; no operation has read it
StartupProvider ==
  /\ nodes = computeSmartLayout(FreshStore)
  /\ saved = [has |-> FALSE, nodes |-> <<>>]
  /\ nextId = 2
  /\ budget = 0
  /\ tasks = <<>>
  /\ calls = {}
  /\ gen = 0
  /\ ops = 0
  /\ \E r \in Responses : last = Last("Response", 0, 0, TRUE, [response |-> r, result |-> <<>>])

\* one operation turns the response into what it returns or throws
Provide(op, outcome) ==
  /\ last.op = "Response"
  /\ last' = Last(op, 0, 0, outcome.ok, [response |-> last.val.response, result |-> outcome.value])
  /\ UNCHANGED <<nodes, nextId, tasks, calls, saved, gen, ops, budget>>

NextProvider ==
  \/ Provide("generateTopicTitle", generateTopicTitle(last.val.response))
  \/ Provide("generateChapters", generateChapters(last.val.response))
  \/ Provide("generateSubChapters", generateSubChapters(last.val.response))
  \/ Provide("generateDetails", generateDetails(last.val.response))

SpecProvider == StartupProvider /\ [][NextProvider]_vars

(* ============================ properties ================================ *)
NoOrphan(ns) ==
  \A i \in 1..Len(ns) : ns[i].parentId # NullId => HasId(ns, ns[i].parentId)

RECURSIVE AncestorsOf(_, _, _)
\* the ids on the parentId chain above id (fuel bounds the walk)
AncestorsOf(ns, id, fuel) ==
  IF fuel = 0 \/ ~HasId(ns, id) THEN {}
  ELSE LET p == Find(ns, id).parentId
       IN IF p = NullId THEN {} ELSE {p} \cup AncestorsOf(ns, p, fuel - 1)

DescendantsOf(ns, id) ==
  {d \in SeqIds(ns) : id \in AncestorsOf(ns, d, Len(ns))}

VisibleIds(ns) == SeqIds(visibleNodes(ns))

NoneLoading(ns) == \A i \in 1..Len(ns) : ~ns[i].isLoading

CallsOf(t) == {c \in calls : c.task = t}

Idle == calls = {} /\ \A t \in TaskIds : tasks[t].phase \in {"done", "failed"}

\* the fields a layout pass does not write
Content(n) == [n EXCEPT !.position = ZeroPosition, !.height = 0]

\* the steps in which an expansion or a batch writes the node set after an await
TaskWriteOps == {"TitleAnswer", "ChaptersAnswer", "WaterfallAnswer", "ChapterAnswer",
                 "DetailAnswer", "DelayElapsed"}

\* C1: the node set never holds an orphan (a node whose parentId names no node of
\* the set), also when a delete or a load falls between the awaits of a waterfall,
\* a chapter expansion or a detail batch.
C1_NoOrphanEver == NoOrphan(nodes)

\* C2: every write of an expansion or a batch is a transformation of the node set
\* as it is at the time of the write: every node present just before the write is
\* present after it, and the nodes the write is not about keep their content.
C2_WritesTransformCurrentState ==
  [][last'.op \in TaskWriteOps =>
       LET t == last'.arg
           about == {tasks'[t].id} \cup {tasks'[t].items[k].id : k \in 1..Len(tasks'[t].items)}
       IN \A i \in 1..Len(nodes) :
            /\ HasId(nodes', nodes[i].id)
            /\ nodes[i].id \notin about =>
                 Content(Find(nodes', nodes[i].id)) = Content(nodes[i])]_vars

\* C3: isLoading is transient: whenever no invocation has a provider call pending
\* or a step remaining, no node has isLoading = true.
C3_LoadingOnlyWhileGenerating == Idle => NoneLoading(nodes)

\* C4: within one waterfall or detail batch at most one provider call is
\* outstanding, and it is the call for the item after the last one written back:
\* the result of item i is written before the request for item i + 1 is issued.
C4_OneCallPerBatch ==
  \A t \in TaskIds :
    /\ Cardinality(CallsOf(t)) <= 1
    /\ \A c \in CallsOf(t) : c.item >= 1 =>
         /\ c.item = tasks[t].i + 1
         /\ tasks[t].phase = "await"

C4_Witness ==
  \E t \in TaskIds :
    /\ tasks[t].kind = "subchapter"
    /\ tasks[t].i = 1
    /\ Call(t, 2, "details") \in calls
    /\ ~Find(nodes, tasks[t].items[1].id).isLoading

\* C5: a root expansion whose provider answers k chapters creates exactly k
\* chapter nodes, children of that root, collapsed and childless; only the first
\* min(k, 3) of them enter the waterfall; a chapter beyond the third never loads
\* and gets children only from a manual trigger on it (learn or add child).
C5_RootExpansion ==
  /\ [][last'.op = "ChaptersAnswer" /\ last'.ok =>
          LET t == last'.arg
              k == Len(last'.val)
              m == IF k < 3 THEN k ELSE 3
              created == {id \in SeqIds(nodes') : id >= nextId}
          IN /\ nextId' = nextId + k
             /\ created = nextId..(nextId + k - 1)
             /\ HasId(nodes', tasks[t].id)
             /\ \A id \in created :
                  /\ Find(nodes', id).nodeType = "chapter"
                  /\ Find(nodes', id).parentId = tasks[t].id
                  /\ Find(nodes', id).collapsed
                  /\ ChildrenOf(nodes', id) = <<>>
             /\ Len(tasks'[t].items) = m
             /\ \A j \in 1..m : tasks'[t].items[j].id = nextId + j - 1]_vars
  /\ [](\A t \in TaskIds : \A j \in 4..Len(tasks[t].chapterIds) :
          LET c == tasks[t].chapterIds[j]
          IN /\ \A k \in 1..Len(tasks[t].items) : tasks[t].items[k].id # c
             /\ HasId(nodes, c) => ~Find(nodes, c).isLoading
             /\ \A i \in 1..Len(nodes) : nodes[i].parentId = c =>
                  \/ ~nodes[i].data.hasLearningPoints
                  \/ \E u \in TaskIds : tasks[u].kind = "chapter" /\ tasks[u].id = c)

C5_Witness ==
  \E t \in TaskIds :
    /\ Len(tasks[t].chapterIds) = 4
    /\ tasks[t].phase = "done"
    /\ tasks[t].i = 3
    /\ \A j \in 1..4 : HasId(nodes, tasks[t].chapterIds[j])
    /\ ChildrenOf(nodes, tasks[t].chapterIds[1]) # <<>>
    /\ ChildrenOf(nodes, tasks[t].chapterIds[4]) = <<>>

\* C6: triggering a subchapter with n >= 1 learning points adds exactly n detail
\* placeholders under it, each with isLoading = true, in one update, before any
\* explanation request of the batch has been answered: after that update no item
\* is written back and the only request out is the one for the first item.
C6_PlaceholdersFirst ==
  [][last'.op = "LearnSubchapter" =>
       LET id == last'.arg
           n == Len(Find(nodes, id).data.learningPoints)
           t == Len(tasks')
       IN n >= 1 =>
            /\ Len(nodes') = Len(nodes) + n
            /\ \A i \in 1..Len(nodes) : nodes'[i].id = nodes[i].id
            /\ \A j \in 1..n :
                 LET ph == nodes'[Len(nodes) + j]
                 IN /\ ph.nodeType = "detail"
                    /\ ph.parentId = id
                    /\ ph.isLoading
                    /\ ~HasId(nodes, ph.id)
                    /\ tasks'[t].items[j].id = ph.id
            /\ Len(tasks'[t].items) = n
            /\ tasks'[t].i = 0
            /\ CallsOf(t) = {}
            /\ {c \in calls' : c.task = t} = {Call(t, 1, "details")}]_vars

C6_Witness ==
  /\ last.op = "LearnSubchapter"
  /\ Len(Find(nodes, last.arg).data.learningPoints) = 2
  /\ Len(ChildrenOf(nodes, last.arg)) = 2
  /\ \A i \in 1..Len(nodes) : nodes[i].parentId = last.arg => nodes[i].isLoading

\* C7: when the request for item i of a detail batch fails, placeholder i gets
\* the failure title "Gagal Memuat" and isLoading = false; the batch goes on, so
\* every other item is still requested, and an item whose request succeeds gets
\* the provider's title, explanation and key points with isLoading = false.
C7_DetailFailureIsLocal ==
  /\ last.op = "DetailAnswer" =>
       LET t == last.arg
           id == tasks[t].items[last.item].id
       IN /\ tasks[t].phase = "delay"
          /\ tasks[t].i = last.item
          /\ HasId(nodes, id) =>
               LET n == Find(nodes, id)
               IN /\ ~n.isLoading
                  /\ IF last.ok
                     THEN /\ n.title = last.val.title
                          /\ n.data.details = last.val.comprehensiveExplanation
                          /\ n.data.bulletPoints = last.val.corePoints
                     ELSE n.title = TitleGagalMemuat
  /\ \A t \in TaskIds : tasks[t].kind = "subchapter" =>
       /\ tasks[t].phase \in {"await", "delay", "done"}
       /\ tasks[t].phase = "await" => Call(t, tasks[t].i + 1, "details") \in calls
       /\ tasks[t].phase = "done" => tasks[t].i = Len(tasks[t].items)

C7_Witness ==
  /\ last.op = "DetailAnswer"
  /\ last.ok
  /\ last.item = 2
  /\ LET first == tasks[last.arg].items[1].id
         second == tasks[last.arg].items[2].id
     IN /\ HasId(nodes, first)
        /\ Find(nodes, first).title = TitleGagalMemuat
        /\ ~Find(nodes, first).isLoading
        /\ HasId(nodes, second)
        /\ Find(nodes, second).title \in ProviderTitles
        /\ ~Find(nodes, second).isLoading

\* C8: when the subchapter request for a waterfall chapter fails, that chapter's
\* isLoading is cleared and no node is added; the waterfall goes on, so every
\* later chapter among the first three is still requested.
C8_WaterfallFailureIsLocal ==
  /\ [][last'.op = "WaterfallAnswer" /\ ~last'.ok =>
          LET t == last'.arg
              id == tasks[t].items[last'.item].id
          IN /\ SeqIds(nodes') = SeqIds(nodes)
             /\ nextId' = nextId
             /\ HasId(nodes', id) => ~Find(nodes', id).isLoading
             /\ tasks'[t].phase = "delay"
             /\ tasks'[t].i = last'.item]_vars
  /\ [](\A t \in TaskIds : tasks[t].kind = "root" /\ tasks[t].items # <<>> =>
          /\ tasks[t].phase \in {"await", "delay", "done"}
          /\ tasks[t].phase = "await" => Call(t, tasks[t].i + 1, "subchapters") \in calls
          /\ tasks[t].phase = "done" => tasks[t].i = Len(tasks[t].items))

C8_Witness ==
  /\ last.op = "WaterfallAnswer"
  /\ last.ok
  /\ last.item = 2
  /\ last.val # <<>>
  /\ LET first == tasks[last.arg].items[1].id
         second == tasks[last.arg].items[2].id
     IN /\ HasId(nodes, first)
        /\ ChildrenOf(nodes, first) = <<>>
        /\ Find(nodes, first).collapsed
        /\ ~Find(nodes, first).isLoading
        /\ ChildrenOf(nodes, second) # <<>>

\* C9: Delete(id) on a node of the set removes exactly that node and all its
\* transitive descendants and no other node; afterwards the set holds no orphan.
C9_DeleteRemovesSubtree ==
  [][last'.op = "Delete" /\ HasId(nodes, last'.arg) =>
       /\ SeqIds(nodes') = SeqIds(nodes) \ ({last'.arg} \cup DescendantsOf(nodes, last'.arg))
       /\ NoOrphan(nodes')]_vars

\* C10: collapsing a node removes all its descendants from the visible set while
\* the node itself stays as visible as it was; toggling it back restores exactly
\* the visible set there was before.
C10_CollapseRoundTrip ==
  \A id \in SeqIds(nodes) : ~Find(nodes, id).collapsed =>
    LET folded == toggleCollapse(nodes, id)
        back == toggleCollapse(folded, id)
    IN /\ Find(folded, id).collapsed
       /\ VisibleIds(folded) = VisibleIds(nodes) \ DescendantsOf(nodes, id)
       /\ (id \in VisibleIds(nodes)) = (id \in VisibleIds(folded))
       /\ VisibleIds(back) = VisibleIds(nodes)

C10_Witness ==
  /\ last.op = "ToggleCollapse"
  /\ HasId(nodes, last.arg)
  /\ Find(nodes, last.arg).collapsed
  /\ last.arg \in VisibleIds(nodes)
  /\ DescendantsOf(nodes, last.arg) # {}
  /\ VisibleIds(nodes) \cap DescendantsOf(nodes, last.arg) = {}
  /\ VisibleIds(toggleCollapse(nodes, last.arg)) \cap DescendantsOf(nodes, last.arg) # {}

\* C11 (as stated): after add-child on a node of the set that is collapsed, the
\* parent's collapsed flag is false and the new child is in the output of the
\* visibility resolver.
C11_AddChildShowsChild ==
  [][last'.op = "AddChild" /\ HasId(nodes, last'.arg) =>
       (Find(nodes, last'.arg).collapsed =>
          /\ ~Find(nodes', last'.arg).collapsed
          /\ nextId \in VisibleIds(nodes'))]_vars

\* C11 (amended): after add-child on a node of the set that is collapsed, the
\* parent's collapsed flag is false, the new child is in the node set as a child
\* of that parent, and it is in the output of the visibility resolver exactly
\* when the parent is (a parent hidden behind a collapsed ancestor, or one whose
\* own parent is gone, stays hidden and so does the child).
C11_AddChildUnfoldsParent ==
  [][last'.op = "AddChild" /\ HasId(nodes, last'.arg) =>
       (Find(nodes, last'.arg).collapsed =>
          /\ ~Find(nodes', last'.arg).collapsed
          /\ HasId(nodes', nextId)
          /\ Find(nodes', nextId).parentId = last'.arg
          /\ (last'.arg \in VisibleIds(nodes')) = (last'.arg \in VisibleIds(nodes))
          /\ (nextId \in VisibleIds(nodes')) = (last'.arg \in VisibleIds(nodes)))]_vars

\* the first act of a session that starts from the generated store: add-child on
\* its subchapter, which that store holds collapsed
C11_Witness ==
  /\ last.op = "AddChild"
  /\ ops = 1
  /\ HasId(nodes, last.arg)
  /\ Find(nodes, last.arg).nodeType = "subchapter"
  /\ ~Find(nodes, last.arg).collapsed
  /\ \E i \in 1..Len(nodes) :
       /\ nodes[i].parentId = last.arg
       /\ nodes[i].title = TitleNodeBaru
       /\ nodes[i].id \in VisibleIds(nodes)

(* ------------------ loading a saved map: layout, visibility ------------- *)
\* The maps 'cognimap-save' may hold: forests of up to MaxLayoutNodes nodes in
\* any node-set order, types and levels following the parent chain, any node
\* collapsed or minimized, no position or height computed yet; a node whose
\* parent is gone (AbsentId) is a subchapter that lost its chapter.
RECURSIVE DepthOf(_, _, _)
\* the level the parent chain gives node i; -1 when the chain does not end
DepthOf(par, i, fuel) ==
  IF par[i] = NullId THEN 0
  ELSE IF par[i] = AbsentId THEN 2
  ELSE IF fuel = 0 THEN -1
  ELSE LET d == DepthOf(par, par[i], fuel - 1)
       IN IF d < 0 THEN -1 ELSE d + 1

TypeAt(depth) ==
  IF depth = 0 THEN "root"
  ELSE IF depth = 1 THEN "chapter"
  ELSE IF depth = 2 THEN "subchapter"
  ELSE "detail"

DataAt(depth) ==
  IF depth = 1 THEN [NoData EXCEPT !.summary = <<"s">>]
  ELSE IF depth = 2 THEN [NoData EXCEPT !.hasLearningPoints = TRUE,
                                        !.learningPoints = << <<"p">> >>]
  ELSE NoData

ParentMaps(n) ==
  {par \in [1..n -> (0..n) \cup {AbsentId}] :
     \A i \in 1..n : par[i] # i /\ DepthOf(par, i, n) >= 0}

SavedNode(i, par, n, collapsed, minimized) ==
  LET depth == DepthOf(par, i, n)
  IN [id |-> i, parentId |-> par[i], title |-> <<"t">>,
      position |-> IF depth = 0
                   THEN (IF i % 2 = 1 THEN [x |-> 400, y |-> 100] ELSE [x |-> 1000, y |-> 60])
                   ELSE ZeroPosition,
      level |-> depth, nodeType |-> TypeAt(depth), collapsed |-> collapsed,
      contentMinimized |-> minimized, height |-> 0, isLoading |-> FALSE,
      data |-> DataAt(depth)]

StartupLayout ==
  /\ \E n \in 1..MaxLayoutNodes :
       \E par \in ParentMaps(n), collapsed \in [1..n -> BOOLEAN], minimized \in [1..n -> BOOLEAN] :
         /\ saved = [has |-> TRUE,
                     nodes |-> [i \in 1..n |-> SavedNode(i, par, n, collapsed[i], minimized[i])]]
         /\ nextId = n + 1
  /\ nodes = computeSmartLayout(FreshStore)
  /\ budget = 1
  /\ tasks = <<>>
  /\ calls = {}
  /\ gen = 0
  /\ ops = 0
  /\ last = Last("Init", 0, 0, TRUE, <<>>)

NextLayout == LoadMap

SpecLayout == StartupLayout /\ [][NextLayout]_vars

\* C12: the layout is idempotent: laying out an already laid out node set gives
\* every node the same position and height again, for the saved map a load lays
\* out and for the node set the store holds.
C12_LayoutIdempotent ==
  LET once == computeSmartLayout(saved.nodes)
      twice == computeSmartLayout(once)
      again == computeSmartLayout(nodes)
  IN /\ Len(twice) = Len(once)
     /\ \A i \in 1..Len(once) :
          /\ twice[i].position = once[i].position
          /\ twice[i].height = once[i].height
     /\ last.op = "LoadMap" =>
          \A i \in 1..Len(nodes) :
            /\ again[i].position = nodes[i].position
            /\ again[i].height = nodes[i].height

\* a loaded map of four nodes in which the layout moved a grandchild
C12_Witness ==
  /\ last.op = "LoadMap"
  /\ Len(nodes) = MaxLayoutNodes
  /\ \E i \in 1..Len(nodes) :
       /\ nodes[i].level = 2
       /\ nodes[i].height # 0
       /\ nodes[i].position # saved.nodes[i].position

\* the ids the layout visits: the roots and, below a visited node that is not
\* collapsed, its children
VisitedIds(ns) == DOMAIN layoutRoots(ns, RootsOf(ns), EmptyMaps)

\* the number layoutNode returns for a node (it does not depend on where the
\* node is placed)
Footprint(ns, id) == layoutNode(ns, id, 0, 0, EmptyMaps).ret

RECURSIVE SumOverChildren(_, _)
\* the sum over the children of (child footprint + gap)
SumOverChildren(ns, children) ==
  IF children = <<>> THEN 0
  ELSE Footprint(ns, Head(children).id) + GAP_Y + SumOverChildren(ns, Tail(children))

FootprintRule(ns, id) ==
  LET node == Find(ns, id)
  IN IF node.collapsed THEN getNodeHeight(node)
     ELSE getNodeHeight(node) + GAP_Y + SumOverChildren(ns, ChildrenOf(ns, id))

\* C13 (as stated): for every node the layout visits, the footprint returned for it is its
\* own height when it is collapsed, and its own height plus the gap plus the sum
\* over its direct children of (child footprint + gap) when it is expanded, also
\* when it is expanded and has no children.
C13_Footprint ==
  \A id \in VisitedIds(saved.nodes) :
    Footprint(saved.nodes, id) = FootprintRule(saved.nodes, id)

\* C13 (amended): for every node the layout visits, the footprint returned for
\* it is its own height when it is collapsed or has no children, and its own
\* height plus the gap plus the sum over its direct children of (child footprint
\* + gap) when it is expanded and has at least one child.
C13_FootprintButLeaves ==
  \A id \in VisitedIds(saved.nodes) :
    Footprint(saved.nodes, id) =
      IF ChildrenOf(saved.nodes, id) = <<>>
      THEN getNodeHeight(Find(saved.nodes, id))
      ELSE FootprintRule(saved.nodes, id)

\* a saved map in which a visited expanded node has an expanded childless child
\* followed by a collapsed child that has a child of its own
C13_Witness ==
  LET S == saved.nodes
  IN \E id \in VisitedIds(S) :
       LET children == ChildrenOf(S, id)
       IN /\ last.op = "LoadMap"
          /\ ~Find(S, id).collapsed
          /\ Len(children) = 2
          /\ ~children[1].collapsed
          /\ ChildrenOf(S, children[1].id) = <<>>
          /\ Footprint(S, children[1].id) = getNodeHeight(children[1])
          /\ children[2].collapsed
          /\ ChildrenOf(S, children[2].id) # <<>>
          /\ Footprint(S, id) = getNodeHeight(Find(S, id)) + GAP_Y
               + getNodeHeight(children[1]) + GAP_Y + getNodeHeight(children[2]) + GAP_Y

\* visible children of one parent stand top to bottom in node-set order, each at
\* least the previous one's height plus the gap below the previous one
SiblingsInOrder(ns) ==
  LET visible == VisibleIds(ns)
  IN \A i, j \in 1..Len(ns) :
       (/\ i < j
        /\ ns[i].parentId # NullId
        /\ ns[i].parentId = ns[j].parentId
        /\ ns[i].id \in visible
        /\ ns[j].id \in visible)
       => ns[j].position.y >= ns[i].position.y + ns[i].height + GAP_Y

\* C14: for any two visible siblings a and b where a precedes b in the node set,
\* b.y >= a.y + a.height + gap in the laid out store; and add-child on a root
\* appends a chapter at level 1, so two of them on a root give two chapters at
\* level 1 that stand in that order.
C14_SiblingsTopToBottom ==
  /\ SiblingsInOrder(nodes)
  /\ (last.op = "AddChild" /\ HasId(nodes, last.arg)) =>
       LET child == nodes[Len(nodes)]
       IN /\ child.parentId = last.arg
          /\ child.level = Find(nodes, last.arg).level + 1
          /\ Find(nodes, last.arg).nodeType = "root" =>
               child.nodeType = "chapter" /\ child.level = 1

\* tree = [root], add-child on it twice
C14_Witness ==
  /\ last.op = "AddChild"
  /\ ops = 2
  /\ Len(nodes) = 3
  /\ nodes[1].nodeType = "root"
  /\ \A i \in {2, 3} :
       /\ nodes[i].parentId = nodes[1].id
       /\ nodes[i].title = TitleNodeBaru
       /\ nodes[i].nodeType = "chapter"
       /\ nodes[i].level = 1
       /\ nodes[i].id \in VisibleIds(nodes)
  /\ nodes[3].position.y >= nodes[2].position.y + nodes[2].height + GAP_Y

\* the rule table: compact when minimized; else by type and data
HeightRule(n) ==
  CASE n.contentMinimized -> 80
    [] ~n.contentMinimized /\ n.nodeType = "root" -> 180
    [] ~n.contentMinimized /\ n.nodeType = "detail" -> 550
    [] ~n.contentMinimized /\ n.nodeType \in {"chapter", "subchapter"}
         /\ n.data.hasLearningPoints -> 320
    [] ~n.contentMinimized /\ n.nodeType \in {"chapter", "subchapter"}
         /\ ~n.data.hasLearningPoints /\ n.data.summary # <<>> -> 260
    [] OTHER -> 120

\* C15 (as stated): in every reachable state every node of the store, visible or
\* hidden behind a collapsed ancestor, has the height the rule table gives for
\* its contentMinimized, nodeType and data.
C15_EveryHeightCurrent ==
  \A i \in 1..Len(nodes) : nodes[i].height = HeightRule(nodes[i])

\* C15 (amended): in every reachable state every node in the output of the
\* visibility resolver has the height the rule table gives for its
\* contentMinimized, nodeType and data (a node behind a collapsed ancestor, or
\* one whose parent is gone, keeps what it had: no height if no layout pass has
\* reached it yet).
C15_VisibleHeightCurrent ==
  \A i \in 1..Len(nodes) :
    nodes[i].id \in VisibleIds(nodes) => nodes[i].height = HeightRule(nodes[i])

\* a generated chapter shown with its content open, a subchapter below it, and a
\* placeholder behind the collapsed subchapter that no layout pass has reached
C15_Witness ==
  \E i, j, k \in 1..Len(nodes) :
    /\ nodes[i].nodeType = "chapter"
    /\ ~nodes[i].contentMinimized
    /\ nodes[i].height = 260
    /\ nodes[j].parentId = nodes[i].id
    /\ nodes[j].id \in VisibleIds(nodes)
    /\ nodes[j].height = 80
    /\ nodes[k].parentId = nodes[j].id
    /\ nodes[k].id \notin VisibleIds(nodes)
    /\ nodes[k].height = 0

\* C16: in every reachable state every root has level 0, and every other node has
\* a level of at least 1 that is exactly its parent's level plus 1 (stated for
\* the nodes whose parent is in the set: there is no parent level to compare
\* with otherwise), whichever handler or generation step created it.
C16_LevelIsParentPlusOne ==
  \A i \in 1..Len(nodes) :
    LET n == nodes[i]
    IN /\ (n.nodeType = "root") = (n.parentId = NullId)
       /\ n.parentId = NullId => n.level = 0
       /\ n.parentId # NullId => n.level >= 1
       /\ (n.parentId # NullId /\ HasId(nodes, n.parentId)) =>
            n.level = Find(nodes, n.parentId).level + 1

\* a generated chapter at level 1, a subchapter of the waterfall at level 2 and
\* a child added by hand below it at level 3
C16_Witness ==
  \E i, j, k \in 1..Len(nodes) :
    /\ HasId(nodes, nodes[i].parentId)
    /\ Find(nodes, nodes[i].parentId).level = 0
    /\ nodes[i].data.summary # <<>>
    /\ nodes[i].level = 1
    /\ nodes[j].parentId = nodes[i].id
    /\ nodes[j].data.hasLearningPoints
    /\ nodes[j].level = 2
    /\ nodes[k].parentId = nodes[j].id
    /\ nodes[k].title = TitleNodeBaru
    /\ nodes[k].level = 3

\* the progression root -> chapter -> subchapter -> detail, which ends at detail
NextType(parentType) ==
  CASE parentType = "root" -> "chapter"
    [] parentType = "chapter" -> "subchapter"
    [] parentType = "subchapter" -> "detail"
    [] parentType = "detail" -> "detail"

\* C17: in every reachable state each non-root node's nodeType is the successor
\* of its parent's nodeType in the progression root -> chapter -> subchapter ->
\* detail, a child of a detail node being a detail node (stated for the nodes
\* whose parent is in the set), and no step changes the nodeType of a node.
C17_TypeProgression ==
  /\ [](\A i \in 1..Len(nodes) :
          /\ nodes[i].nodeType \in {"root", "chapter", "subchapter", "detail"}
          /\ nodes[i].parentId # NullId => nodes[i].nodeType # "root"
          /\ (nodes[i].parentId # NullId /\ HasId(nodes, nodes[i].parentId)) =>
               nodes[i].nodeType = NextType(Find(nodes, nodes[i].parentId).nodeType))
  /\ [][\A i \in 1..Len(nodes) :
          HasId(nodes', nodes[i].id) =>
            Find(nodes', nodes[i].id).nodeType = nodes[i].nodeType]_vars

\* a detail node added below a detail node that was added below a subchapter
C17_Witness ==
  \E i, j \in 1..Len(nodes) :
    /\ nodes[j].parentId = nodes[i].id
    /\ nodes[j].nodeType = "detail"
    /\ nodes[i].nodeType = "detail"
    /\ HasId(nodes, nodes[i].parentId)
    /\ Find(nodes, nodes[i].parentId).nodeType = "subchapter"
    /\ HasId(nodes, Find(nodes, nodes[i].parentId).parentId)
    /\ Find(nodes, Find(nodes, nodes[i].parentId).parentId).nodeType = "chapter"

RECURSIVE Shown(_, _, _)
\* id is a root, or every proper ancestor of id up to a root is in the set and
\* not collapsed (fuel bounds the walk up the parent chain)
Shown(ns, id, fuel) ==
  LET n == Find(ns, id)
  IN IF n.parentId = NullId THEN TRUE
     ELSE IF fuel = 0 \/ ~HasId(ns, n.parentId) THEN FALSE
     ELSE ~Find(ns, n.parentId).collapsed /\ Shown(ns, n.parentId, fuel - 1)

ShownNodes(ns) == SelectSeq(ns, LAMBDA n : Shown(ns, n.id, Len(ns)))

\* C18: the output of the visibility resolver is exactly the nodes that are roots
\* or whose every proper ancestor up to a root is in the set and not collapsed,
\* in node-set order; a node with a collapsed ancestor is never in it. Stated
\* for the saved map and for the store a load makes of it.
C18_VisibleIffChainOpen ==
  /\ visibleNodes(saved.nodes) = ShownNodes(saved.nodes)
  /\ visibleNodes(nodes) = ShownNodes(nodes)
  /\ \A id \in VisibleIds(nodes) : \A a \in AncestorsOf(nodes, id, Len(nodes)) :
       HasId(nodes, a) /\ ~Find(nodes, a).collapsed

\* a loaded chain root, chapter, subchapter, detail in another node-set order
\* with only the chapter collapsed: the subchapter and the detail are hidden
C18_Witness ==
  /\ last.op = "LoadMap"
  /\ Len(nodes) = 4
  /\ nodes[1].id \notin VisibleIds(nodes)
  /\ \E r, c, s, d \in 1..4 :
       /\ nodes[r].parentId = NullId
       /\ nodes[c].parentId = nodes[r].id
       /\ nodes[s].parentId = nodes[c].id
       /\ nodes[d].parentId = nodes[s].id
       /\ ~nodes[r].collapsed /\ nodes[c].collapsed
       /\ ~nodes[s].collapsed /\ ~nodes[d].collapsed
       /\ VisibleIds(nodes) = {nodes[r].id, nodes[c].id}

(* ------------- handlers called with the id of a node long gone ---------- *)
\* ids no node of the store has: the one of a node deleted while a child of it
\* was still to be appended, and one that never was in the store
GoneArgs(ns) ==
  ({ns[i].parentId : i \in 1..Len(ns)} \ (SeqIds(ns) \cup {NullId})) \cup {AbsentId}

NextGone ==
  \/ \E id \in SeqIds(nodes) : DeleteButton(id)
  \/ \E id \in SeqIds(nodes) : LearnChapter(id)
  \/ \E t \in TaskIds, subChapters \in SubChapterAnswers : ChapterAnswer(t, subChapters)
  \/ \E id \in GoneArgs(nodes), pos \in RootPositions : HandleUpdatePosition(id, pos)
  \/ \E id \in GoneArgs(nodes) : HandleAddChild(id)
  \/ \E id \in GoneArgs(nodes) : HandleDelete(id)
  \/ \E id \in GoneArgs(nodes), newTitle \in EditTitles : HandleEdit(id, newTitle)
  \/ \E id \in GoneArgs(nodes) : HandleToggleCollapse(id)
  \/ \E id \in GoneArgs(nodes) : HandleToggleContent(id)
  \/ \E id \in GoneArgs(nodes) : LearnNothing(id)

SpecGone == StartupDelete /\ [][NextGone]_vars

\* the handlers that take the id of a node
IdOps == {"UpdatePosition", "AddChild", "Delete", "Edit", "ToggleCollapse",
          "ToggleContent", "LearnNothing", "LearnRoot", "LearnChapter",
          "LearnSubchapter"}

\* C19: an operation (reposition, add-child, delete, edit title, toggle collapse,
\* toggle content, learn) invoked with an id that is not in the node set leaves
\* the node set unchanged and raises no error (it starts no generation either).
C19_AbsentIdIsNoOp ==
  [][last'.op \in IdOps /\ ~HasId(nodes, last'.arg) =>
       /\ nodes' = nodes
       /\ last'.ok
       /\ tasks' = tasks /\ calls' = calls /\ nextId' = nextId]_vars

(* ---------------- a provider failure and the caller of learn ------------ *)
\* the mode handleTriggerLearn leaves the node component in: 'loading' while
\* onLearn is awaited, 'idle' once it resolves, 'input' after the catch
CallerMode(task) ==
  CASE task.outcome = "pending" -> "loading"
    [] task.outcome = "resolved" -> "idle"
    [] task.outcome = "rejected" -> "input"

\* the steps in which a provider call of a root expansion (title, chapters) or
\* of a manual chapter expansion has just failed
ExpansionFailed ==
  /\ last'.op \in {"TitleAnswer", "ChaptersAnswer", "ChapterAnswer"}
  /\ ~last'.ok

\* C20 as stated: when a provider call fails during root expansion or during
\* manual chapter expansion, the caller of the learn action gets an error
\* outcome and leaves the loading state, and the store keeps every node and
\* every node's data.
C20_FailureReachesCaller ==
  [][ExpansionFailed =>
       /\ tasks'[last'.arg].outcome = "rejected"
       /\ CallerMode(tasks[last'.arg]) = "loading"
       /\ CallerMode(tasks'[last'.arg]) # "loading"
       /\ nodes' = nodes]_vars

\* C20 amended: a failure during root expansion reaches the caller of the learn
\* action as an error outcome; a failure during manual chapter expansion is
\* reported to the user by the learn action itself, which then returns normally.
\* Either way the caller leaves the loading state and the store keeps every
\* node and every node's data.
C20_FailureIsReported ==
  [][ExpansionFailed =>
       LET before == tasks[last'.arg]
           after == tasks'[last'.arg]
       IN /\ before.kind = "root" => after.outcome = "rejected" /\ ~after.alerted
          /\ before.kind = "chapter" => after.outcome = "resolved" /\ after.alerted
          /\ CallerMode(before) = "loading"
          /\ CallerMode(after) # "loading"
          /\ nodes' = nodes]_vars

\* a manual chapter expansion has failed on a store with a subchapter already
\* below that chapter: the user was told, the caller is idle, the subchapter stays
C20_Witness ==
  /\ last.op = "ChapterAnswer" /\ ~last.ok
  /\ tasks[last.arg].kind = "chapter"
  /\ tasks[last.arg].alerted
  /\ CallerMode(tasks[last.arg]) = "idle"
  /\ HasId(nodes, tasks[last.arg].id)
  /\ ChildrenOf(nodes, tasks[last.arg].id) # <<>>
  /\ \E t \in TaskIds : tasks[t].kind = "root" /\ tasks[t].outcome = "rejected"

(* --------------------- placeholders and what is shown ------------------- *)
\* handleTriggerLearn calls onLearn unless the node has children and is
\* collapsed (then the click only unfolds it)
TriggerReachesLearn(ns, id) ==
  ~(ChildrenOf(ns, id) # <<>> /\ Find(ns, id).collapsed)

\* the ids handed out by the step just taken
NewIds == nextId..(nextId' - 1)

\* C21: immediately after expansion is triggered on a visible subchapter, all of
\* its newly created placeholder detail nodes are in the output of the
\* visibility resolver, also when the subchapter was created by generation.
C21_PlaceholdersShown ==
  [][(/\ last'.op = "LearnSubchapter"
      /\ last'.arg \in VisibleIds(nodes)
      /\ TriggerReachesLearn(nodes, last'.arg))
     => NewIds \subseteq VisibleIds(nodes')]_vars

(* ------------------------ no retry, no cancellation --------------------- *)
Min(a, b) == IF a < b THEN a ELSE b

\* the provider calls a batch makes for its items
BatchCalls(cs) == {c \in cs : c.item >= 1}

\* C22: no provider call is retried and no batch is cancelled. A batch issues the
\* call of item i + 1 only once the i items before it are settled, every settled
\* call (answered or failed) advances the batch by exactly one item, and a
\* finished batch has gone through all its items: the n placeholders of a
\* subchapter, the first min(k, 3) of the k chapters of a root expansion;
\* whatever failed and whatever was deleted meanwhile.
C22_EveryItemOnce ==
  /\ [](\A t \in TaskIds :
          /\ tasks[t].kind = "root" /\ tasks[t].outcome = "resolved" =>
               Len(tasks[t].items) = Min(Len(tasks[t].chapterIds), WaterfallLimit)
          /\ tasks[t].phase = "done" => tasks[t].i = Len(tasks[t].items)
          /\ tasks[t].i <= Len(tasks[t].items)
          /\ \A c \in BatchCalls(calls) : c.task = t => c.item = tasks[t].i + 1)
  /\ [][/\ \A c \in BatchCalls(calls' \ calls) :
              c.item = tasks'[c.task].i + 1 /\ c.item <= Len(tasks'[c.task].items)
        /\ \A c \in BatchCalls(calls \ calls') :
              tasks[c.task].i = c.item - 1 /\ tasks'[c.task].i = c.item
        /\ \A t \in TaskIds :
              tasks'[t].i # tasks[t].i =>
                \E c \in BatchCalls(calls \ calls') : c.task = t]_vars

\* a detail batch of two placeholders ran to its end although its first item
\* failed and its second placeholder was deleted before the batch was over
C22_Witness ==
  /\ last.op = "DelayElapsed"
  /\ LET task == tasks[last.arg]
     IN /\ task.kind = "subchapter"
        /\ task.phase = "done"
        /\ Len(task.items) = 2 /\ task.i = 2
        /\ HasId(nodes, task.items[1].id)
        /\ Find(nodes, task.items[1].id).title = TitleGagalMemuat
        /\ ~HasId(nodes, task.items[2].id)

(* ------------------------ the store and the layout ---------------------- *)
\* C23: every reachable state of the store is a fixed point of the layout
\* engine: after every mutation and every write-back of the orchestrator, a
\* fresh layout pass would change no position and no height.
C23_StoreIsLaidOut == computeSmartLayout(nodes) = nodes

\* a detail request has just failed for a placeholder that is on screen: the
\* failure write (title, isLoading) ran without a layout pass
C23_Witness ==
  /\ last.op = "DetailAnswer" /\ ~last.ok
  /\ LET id == tasks[last.arg].items[last.item].id
     IN /\ id \in VisibleIds(nodes)
        /\ Find(nodes, id).title = TitleGagalMemuat
        /\ Find(nodes, id).height = HeightMinimized

\* a layout pass over ns returns the nodes of ns in the same order, each with
\* every field but position and height as it was
OnlyPlaced(ns) ==
  LET out == computeSmartLayout(ns)
  IN /\ Len(out) = Len(ns)
     /\ \A i \in 1..Len(ns) :
          /\ DOMAIN out[i] = DOMAIN ns[i]
          /\ \A f \in DOMAIN ns[i] \ {"position", "height"} : out[i][f] = ns[i][f]

\* C24: a layout pass changes only position and height: the output has the same
\* nodes in the same order, and every node's id, parentId, title, level,
\* nodeType, collapsed, contentMinimized, isLoading and data are unchanged.
\* Stated for the saved map (never laid out) and for the store.
C24_LayoutTouchesOnlyPlace == OnlyPlaced(saved.nodes) /\ OnlyPlaced(nodes)

\* a loaded map of four nodes, one hidden below a collapsed node and one with
\* a parent that is gone, in which the pass did move and size nodes
C24_Witness ==
  /\ last.op = "LoadMap"
  /\ Len(saved.nodes) = 4
  /\ nodes = computeSmartLayout(saved.nodes)
  /\ \E i, j, k \in 1..4 :
       /\ nodes[i].position # saved.nodes[i].position
       /\ nodes[i].height # saved.nodes[i].height
       /\ nodes[j].id \notin VisibleIds(nodes) /\ HasId(nodes, nodes[j].parentId)
       /\ nodes[k].parentId # NullId /\ ~HasId(nodes, nodes[k].parentId)

(* ------------------------------ reposition ------------------------------ *)
\* C25: repositioning a root sets that root's position to exactly the given
\* value and moves every visible node of its subtree by the same (dx, dy) as
\* the root; heights are unchanged.
C25_DragMovesSubtree ==
  [][(/\ last'.op = "UpdatePosition"
      /\ HasId(nodes, last'.arg)
      /\ IsRoot(Find(nodes, last'.arg)))
     => LET id == last'.arg
            old == Find(nodes, id).position
            dx == last'.val[1] - old.x
            dy == last'.val[2] - old.y
        IN /\ SeqIds(nodes') = SeqIds(nodes)
           /\ Find(nodes', id).position = [x |-> last'.val[1], y |-> last'.val[2]]
           /\ \A d \in DescendantsOf(nodes, id) \cap VisibleIds(nodes) :
                /\ Find(nodes', d).position.x = Find(nodes, d).position.x + dx
                /\ Find(nodes', d).position.y = Find(nodes, d).position.y + dy
           /\ \A d \in SeqIds(nodes) : Find(nodes', d).height = Find(nodes, d).height]_vars

\* the root of a tree with a visible chapter and a visible subchapter has just
\* been dragged somewhere else
C25_Witness ==
  /\ last.op = "UpdatePosition"
  /\ HasId(nodes, last.arg)
  /\ IsRoot(Find(nodes, last.arg))
  /\ Find(nodes, last.arg).position = [x |-> 1000, y |-> 60]
  /\ \E c, s \in VisibleIds(nodes) :
       /\ Find(nodes, c).parentId = last.arg
       /\ Find(nodes, s).parentId = c
       /\ Find(nodes, c).position.x = 1000 + INDENT_X
       /\ Find(nodes, s).position.x = 1000 + INDENT_X + INDENT_X

(* --------------------------- trees of the forest ------------------------ *)
RECURSIVE RootOf(_, _, _)
\* the root at the top of id's parent chain, NullId when the chain breaks off
\* at a node that is gone (fuel bounds the walk)
RootOf(ns, id, fuel) ==
  IF fuel = 0 \/ ~HasId(ns, id) THEN NullId
  ELSE IF IsRoot(Find(ns, id)) THEN id
  ELSE RootOf(ns, Find(ns, id).parentId, fuel - 1)

\* the mutations of one node's tree a user makes
TreeOps == {"UpdatePosition", "AddChild", "Delete", "ToggleCollapse",
            "ToggleContent", "LearnSubchapter"}

\* the node whose tree the step just taken has mutated, NullId for other steps
MutatedNode ==
  IF last'.op \in TreeOps THEN last'.arg
  ELSE IF last'.op \in TaskWriteOps THEN tasks[last'.arg].id
  ELSE NullId

\* C26: trees of the forest are laid out independently: a mutation confined to
\* one root's tree (add child, delete, toggle collapse, toggle content,
\* reposition, generation write-back) leaves every node of a different root's
\* tree in the store, with the position and height it had.
C26_OtherTreesUntouched ==
  [][LET target == MutatedNode
         mine == RootOf(nodes, target, Len(nodes) + 1)
     IN (target # NullId /\ mine # NullId) =>
          \A n \in SeqIds(nodes) :
            RootOf(nodes, n, Len(nodes) + 1) \notin {NullId, mine} =>
              /\ HasId(nodes', n)
              /\ Find(nodes', n).position = Find(nodes, n).position
              /\ Find(nodes', n).height = Find(nodes, n).height]_vars

(* ------------------- titles: numbering and provider prefixes ------------ *)
\* titles a user types over a chapter's title, with a chapter number of their own
NumberedEditTitles == {<<"7", ".", " ", "e">>}

\* titles the provider returns: plain, with a chapter number of its own, with a
\* subchapter number of its own
PrefixedTitles == {<<"t">>, <<"3", ".", " ", "t">>, <<"1", ".", "2", " ", "t">>}

TitledCounts == {1, 2}

TitledChapterAnswers ==
  SeqsOfLen([title : PrefixedTitles, briefDescription : ProviderTexts], TitledCounts)

TitledSubChapterAnswers ==
  SeqsOfLen([title : PrefixedTitles, learningPoints : {<< <<"p">> >>}], TitledCounts)

NextTitles ==
  \/ \E id \in SeqIds(nodes) : LearnRoot(id)
  \/ \E id \in SeqIds(nodes) : LearnChapter(id)
  \/ \E id \in SeqIds(nodes), newTitle \in NumberedEditTitles : HandleEdit(id, newTitle)
  \/ \E t \in TaskIds, title \in ProviderTitles : TitleAnswer(t, title)
  \/ \E t \in TaskIds, chapters \in TitledChapterAnswers : ChaptersAnswer(t, chapters)
  \/ \E t \in TaskIds : \E k \in ItemsOf(t), subChapters \in TitledSubChapterAnswers :
       WaterfallAnswer(t, k, subChapters)
  \/ \E t \in TaskIds, subChapters \in TitledSubChapterAnswers : ChapterAnswer(t, subChapters)
  \/ \E t \in TaskIds : DelayElapsed(t)

SpecTitles == Init /\ [][NextTitles]_vars

HasPrefix(s, p) == Len(s) >= Len(p) /\ SubSeq(s, 1, Len(p)) = p

\* the number a chapter title carries, <<>> when it carries none
NumberOf(title) == chapterNumber(title, <<>>)

\* the j-th node the step just taken has created
Created(j) == Find(nodes', nextId + j - 1)

\* the i-th chapter a root expansion has just created is numbered i
ChaptersNumbered ==
  (last'.op = "ChaptersAnswer" /\ last'.ok) =>
    \A i \in 1..Len(last'.val) :
      HasPrefix(Created(i).title, NumberToString(i) \o <<".", " ">>)

\* the j-th subchapter just inserted carries c.j, for the chapter title given
SubChaptersNumbered(chapterTitle) ==
  NumberOf(chapterTitle) # <<>> =>
    \A j \in 1..Len(last'.val) :
      HasPrefix(Created(j).title,
                NumberOf(chapterTitle) \o <<".">> \o NumberToString(j) \o <<" ">>)

\* the chapter a subchapter answer is for: the waterfall's item, or the node of
\* the manual expansion
AnsweredChapter ==
  IF last'.op = "WaterfallAnswer" THEN tasks[last'.arg].items[last'.item]
  ELSE tasks[last'.arg]

SubChapterAnswered == last'.op \in {"WaterfallAnswer", "ChapterAnswer"} /\ last'.ok

\* C27 as stated: the i-th chapter created by a root expansion is numbered i, and
\* the j-th subchapter inserted under a chapter numbered c (by the waterfall or
\* by a manual chapter expansion) carries the hierarchical number c.j, c being
\* the number in the title the chapter has in the store at that moment.
C27_NumberOfChapterInStore ==
  [][/\ ChaptersNumbered
     /\ (SubChapterAnswered /\ HasId(nodes, AnsweredChapter.id)) =>
          SubChaptersNumbered(Find(nodes, AnsweredChapter.id).title)]_vars

\* C27 amended: the i-th chapter created by a root expansion is numbered i, and
\* the j-th subchapter inserted for a chapter carries c.j, c being the number in
\* the title the chapter had when its expansion started (when it was created,
\* for the waterfall; when learn was triggered, for a manual expansion).
C27_NumberOfChapterAtStart ==
  [][/\ ChaptersNumbered
     /\ SubChapterAnswered => SubChaptersNumbered(AnsweredChapter.title)]_vars

\* a manual expansion of chapter "1. t" has just inserted two subchapters 1.1
\* and 1.2, out of provider titles that came with numbers of their own, while
\* the chapter's title had been typed over meanwhile
C27_Witness ==
  /\ last.op = "ChapterAnswer" /\ last.ok
  /\ Len(last.val) = 2
  /\ last.val[1].title = <<"1", ".", "2", " ", "t">>
  /\ NumberOf(tasks[last.arg].title) = <<"1">>
  /\ Find(nodes, tasks[last.arg].id).title \in NumberedEditTitles
  /\ Find(nodes, nextId - 2).title = <<"1", ".", "1", " ", "t">>
  /\ HasPrefix(Find(nodes, nextId - 1).title, <<"1", ".", "2", " ">>)

\* title starts with a numbering (digits and dots), and what follows it and the
\* blanks after it starts with a digit again
CarriesTwoNumbers(title) ==
  LET d == PrefixLen(title, DigitSet \cup {"."})
      rest == SubSeq(title, d + 1, Len(title))
      w == PrefixLen(rest, {" "})
  IN d > 0 /\ Len(rest) > w /\ rest[w + 1] \in DigitSet

\* C29: any numeric numbering prefix the provider emits in a returned chapter
\* title or subchapter title is removed before the orchestrator's own number is
\* prepended, so no created chapter or subchapter title carries two numbering
\* prefixes.
C29_OneNumberPerTitle ==
  [][(last'.op \in {"ChaptersAnswer", "WaterfallAnswer", "ChapterAnswer"} /\ last'.ok) =>
       \A j \in 1..Len(last'.val) : ~CarriesTwoNumbers(Created(j).title)]_vars

(* ----------------------- an empty provider response --------------------- *)
ProviderOps == {"generateTopicTitle", "generateChapters", "generateSubChapters",
                "generateDetails"}

\* C28 as stated: each of the four provider operations (deriveTitle,
\* listChapters, listSubchapters, explainPoint) yields a provider error, not a
\* value, when the provider's response is empty.
C28_EmptyIsError ==
  (last.op \in ProviderOps /\ ~Truthy(last.val.response)) => ~last.ok

\* C28 amended: listChapters, listSubchapters and explainPoint yield a provider
\* error, not a value, when the provider's response is empty; deriveTitle
\* yields the title "Topik Baru" instead.
C28_EmptyIsErrorOrDefaultTitle ==
  (last.op \in ProviderOps /\ ~Truthy(last.val.response)) =>
    IF last.op = "generateTopicTitle"
    THEN last.ok /\ last.val.result = TitleTopikBaru
    ELSE ~last.ok

\* generateSubChapters has thrown on a response whose text is there but empty
C28_Witness ==
  /\ last.op = "generateSubChapters"
  /\ last.val.response.defined
  /\ last.val.response.text = <<>>
  /\ ~last.ok

(* --------------------------- learn on a detail -------------------------- *)
LearnOps == {"LearnNothing", "LearnRoot", "LearnChapter", "LearnSubchapter"}

\* C30: the learn action on a detail-type node issues no provider call and
\* leaves the node set unchanged (it creates no node and starts no batch).
C30_DetailIsTerminal ==
  [][(/\ last'.op \in LearnOps
      /\ HasId(nodes, last'.arg)
      /\ Find(nodes, last'.arg).nodeType = "detail")
     => /\ nodes' = nodes
        /\ calls' = calls
        /\ tasks' = tasks
        /\ nextId' = nextId]_vars

\* learn has just been called on a placeholder detail whose own explanation is
\* still being requested by the batch that made it
C30_Witness ==
  /\ last.op = "LearnNothing"
  /\ HasId(nodes, last.arg)
  /\ Find(nodes, last.arg).nodeType = "detail"
  /\ Find(nodes, last.arg).isLoading
  /\ \E c \in BatchCalls(calls) :
       c.op = "details" /\ tasks[c.task].items[c.item].id = last.arg

(* -------------------------- no overlap in a tree ------------------------ *)
\* a's extent [y, y + height] ends at least one gap above b's
Above(a, b) == a.position.y + a.height + GAP_Y <= b.position.y

\* within one root's tree any two distinct visible nodes of ns are one above
\* the other, at least one gap apart
NoOverlap(ns) ==
  LET vis == visibleNodes(ns)
      root == [i \in 1..Len(vis) |-> RootOf(ns, vis[i].id, Len(ns) + 1)]
  IN \A i, j \in 1..Len(vis) :
       (i < j /\ root[i] = root[j]) => Above(vis[i], vis[j]) \/ Above(vis[j], vis[i])

\* C31: after any sequence of operations, within a single root's tree the
\* vertical extents [y, y + height] of any two distinct visible nodes are
\* disjoint and separated by at least the gap, for any depth and any mix of
\* node heights.
C31_NoOverlapInTree == NoOverlap(nodes)

\* a tree four levels deep is on screen, one of its nodes at full height above
\* minimized ones, and a node lower in node-set order stands below it
C31_Witness ==
  /\ last.op # "Init"
  /\ \E r, c, s, d \in VisibleIds(nodes) :
       /\ Find(nodes, c).parentId = r
       /\ Find(nodes, s).parentId = c
       /\ Find(nodes, d).parentId = s
       /\ Find(nodes, r).parentId = NullId
       /\ \E m \in {r, c, s} : Find(nodes, m).height > HeightMinimized
       /\ Find(nodes, d).height = HeightMinimized

(* --------------------------- one waterfall step ------------------------- *)
\* root expansions with answers of one or two titled entries, while the user
\* folds and unfolds nodes
NextWaterfall ==
  \/ \E id \in SeqIds(nodes) : LearnRoot(id)
  \/ \E id \in SeqIds(nodes) : HandleToggleCollapse(id)
  \/ \E id \in SeqIds(nodes) : DeleteButton(id)
  \/ \E t \in TaskIds, title \in ProviderTitles : TitleAnswer(t, title)
  \/ \E t \in TaskIds, chapters \in TitledChapterAnswers : ChaptersAnswer(t, chapters)
  \/ \E t \in TaskIds : \E k \in ItemsOf(t), subChapters \in TitledSubChapterAnswers :
       WaterfallAnswer(t, k, subChapters)
  \/ \E t \in TaskIds : \E k \in ItemsOf(t) : WaterfallError(t, k)
  \/ \E t \in TaskIds : DelayElapsed(t)

SpecWaterfall == Init /\ [][NextWaterfall]_vars

\* C32: after a successful waterfall step for a chapter, that chapter (if it is
\* still in the store) has isLoading = false and collapsed = false, whatever its
\* collapsed value was when the result arrived, and one new collapsed
\* subchapter child per returned entry has been appended in provider order,
\* all in the one state update of that step.
C32_WaterfallStep ==
  [][(last'.op = "WaterfallAnswer" /\ last'.ok) =>
       LET ch == tasks[last'.arg].items[last'.item].id
           k == Len(last'.val)
           n == Len(nodes)
       IN /\ HasId(nodes, ch) =>
               /\ HasId(nodes', ch)
               /\ ~Find(nodes', ch).isLoading
               /\ ~Find(nodes', ch).collapsed
          /\ Len(nodes') = n + k
          /\ \A i \in 1..n : nodes'[i].id = nodes[i].id
          /\ \A j \in 1..k :
               /\ nodes'[n + j].id \notin SeqIds(nodes)
               /\ nodes'[n + j].parentId = ch
               /\ nodes'[n + j].nodeType = "subchapter"
               /\ nodes'[n + j].collapsed
               /\ nodes'[n + j].data.learningPoints = last'.val[j].learningPoints
               /\ \E own \in 1..Len(nodes'[n + j].title) :
                    SubSeq(nodes'[n + j].title, own + 1, Len(nodes'[n + j].title))
                      = cleanTitle(last'.val[j].title)]_vars

\* a waterfall step has just appended two subchapters, in the order of the
\* answer, under a chapter that is now unfolded and no longer loading
C32_Witness ==
  /\ last.op = "WaterfallAnswer" /\ last.ok
  /\ Len(last.val) = 2
  /\ last.val[1].title # last.val[2].title
  /\ LET ch == tasks[last.arg].items[last.item].id
         n == Len(nodes)
     IN /\ HasId(nodes, ch)
        /\ ~Find(nodes, ch).isLoading /\ ~Find(nodes, ch).collapsed
        /\ nodes[n - 1].parentId = ch /\ nodes[n].parentId = ch
        /\ nodes[n - 1].collapsed /\ nodes[n].collapsed
        /\ nodes[n - 1].id < nodes[n].id

(* ------------------------------- the indent ----------------------------- *)
\* C33: in every reachable state, every visible non-root node's x equals its
\* parent's x plus the indent constant, hence equals its root's x plus the
\* indent times its level.
C33_IndentPerLevel ==
  LET vis == visibleNodes(nodes)
  IN \A i \in 1..Len(vis) :
       ~IsRoot(vis[i]) =>
         /\ HasId(nodes, vis[i].parentId)
         /\ vis[i].position.x = Find(nodes, vis[i].parentId).position.x + INDENT_X
         /\ vis[i].position.x =
              Find(nodes, RootOf(nodes, vis[i].id, Len(nodes) + 1)).position.x
                + INDENT_X * vis[i].level

\* a detail at level 3 is on screen below a root that was dragged to x = 1000
C33_Witness ==
  /\ last.op = "UpdatePosition"
  /\ \E d \in VisibleIds(nodes) :
       /\ Find(nodes, d).level = 3
       /\ RootOf(nodes, d, Len(nodes) + 1) = last.arg
       /\ Find(nodes, last.arg).position.x = 1000
       /\ Find(nodes, d).position.x = 1000 + INDENT_X + INDENT_X + INDENT_X

(* ------------------- a subchapter without learning points --------------- *)
\* C34: triggering expansion of a subchapter whose learning-point list is empty
\* or absent creates exactly one placeholder, titled with the subchapter's own
\* title, and issues exactly one explainPoint call for it.
C34_TitleFallback ==
  /\ [][(last'.op = "LearnSubchapter"
         /\ Find(nodes, last'.arg).data.learningPoints = <<>>) =>
          LET sub == Find(nodes, last'.arg)
              t == Len(tasks')
          IN /\ nextId' = nextId + 1
             /\ Len(nodes') = Len(nodes) + 1
             /\ nodes'[Len(nodes')].id = nextId
             /\ nodes'[Len(nodes')].parentId = sub.id
             /\ nodes'[Len(nodes')].nodeType = "detail"
             /\ nodes'[Len(nodes')].title = sub.title
             /\ nodes'[Len(nodes')].isLoading
             /\ t = Len(tasks) + 1
             /\ Len(tasks'[t].items) = 1
             /\ tasks'[t].items[1].id = nextId
             /\ calls' = calls \cup {Call(t, 1, "details")}]_vars
  /\ [](\A c \in calls : c.op = "details" => c.item \in 1..Len(tasks[c.task].items))

\* a subchapter added by hand, which has no learning points, has just been
\* expanded: one placeholder with the subchapter's title, one call out
C34_Witness ==
  /\ last.op = "LearnSubchapter"
  /\ LET sub == Find(nodes, last.arg)
         t == Len(tasks)
     IN /\ ~sub.data.hasLearningPoints
        /\ sub.title = TitleNodeBaru
        /\ Len(ChildrenOf(nodes, sub.id)) = 1
        /\ ChildrenOf(nodes, sub.id)[1].title = TitleNodeBaru
        /\ ChildrenOf(nodes, sub.id)[1].isLoading
        /\ CallsOf(t) = {Call(t, 1, "details")}

\* C35: triggering expansion of a subchapter changes no field of the subchapter
\* node itself: in particular its own learning-point list is the same after
\* the trigger as before, including when that list is empty and the title
\* fallback is used.
C35_SubchapterUntouched ==
  [][last'.op = "LearnSubchapter" =>
       /\ HasId(nodes', last'.arg)
       /\ Find(nodes', last'.arg) = Find(nodes, last'.arg)]_vars

(* ----------------------- dragging a node that is no root ---------------- *)
\* the step just taken repositioned a node of the store that is not a root
DraggedNonRoot ==
  /\ last'.op = "UpdatePosition"
  /\ HasId(nodes, last'.arg)
  /\ ~IsRoot(Find(nodes, last'.arg))

SamePositions ==
  /\ Len(nodes') = Len(nodes)
  /\ \A i \in 1..Len(nodes) :
       nodes'[i].id = nodes[i].id /\ nodes'[i].position = nodes[i].position

\* C36 as stated: repositioning a node that is not a root has no lasting
\* effect: after the operation every node, including the target when it is
\* hidden behind a collapsed ancestor, has the same position as before.
C36_DragOfNonRootUndone == [][DraggedNonRoot => SamePositions]_vars

\* C36 amended: repositioning a visible node that is not a root has no lasting
\* effect: after the operation every node has the same position as before.
C36_DragOfVisibleNonRootUndone ==
  [][(DraggedNonRoot /\ last'.arg \in VisibleIds(nodes)) => SamePositions]_vars

\* a visible subchapter has just been dragged to a place where it does not
\* stand, and stands where the layout puts it
C36_Witness ==
  /\ last.op = "UpdatePosition"
  /\ last.arg \in VisibleIds(nodes)
  /\ Find(nodes, last.arg).nodeType = "subchapter"
  /\ Find(nodes, last.arg).position # [x |-> last.val[1], y |-> last.val[2]]
  /\ Find(nodes, last.arg).position.x =
       Find(nodes, Find(nodes, last.arg).parentId).position.x + INDENT_X

(***************************************************************************)
(* Toggling twice (App.tsx 212-218).                                       *)
(***************************************************************************)
\* the operations the canvas offers on rendered nodes without the provider:
\* drag, add child, fold and unfold, minimise and maximise content
NextToggles ==
  \/ \E id \in SeqIds(visibleNodes(nodes)), pos \in RootPositions : HandleUpdatePosition(id, pos)
  \/ \E id \in SeqIds(visibleNodes(nodes)) : HandleAddChild(id)
  \/ \E id \in SeqIds(visibleNodes(nodes)) : HandleToggleCollapse(id)
  \/ \E id \in SeqIds(visibleNodes(nodes)) : HandleToggleContent(id)

SpecToggles == StartupDelete /\ [][NextToggles]_vars

\* same nodes in the same order with the same flags
SameFlagsIn(a, b) ==
  /\ Len(a) = Len(b)
  /\ \A i \in 1..Len(a) :
       /\ a[i].id = b[i].id
       /\ a[i].collapsed = b[i].collapsed
       /\ a[i].contentMinimized = b[i].contentMinimized
       /\ a[i].isLoading = b[i].isLoading

\* every node of vis has in a the position and height it has in vis
SamePlacesIn(a, vis) ==
  \A i \in 1..Len(vis) :
    /\ HasId(a, vis[i].id)
    /\ Find(a, vis[i].id).position = vis[i].position
    /\ Find(a, vis[i].id).height = vis[i].height

\* C37 (as stated): toggle collapse applied twice to the same id, and toggle
\* content applied twice to the same id, each give back the whole node set:
\* after a toggle, the same toggle run once more on the new store yields the
\* store from before the first, with the flags, positions and heights of
\* every node.
C37_ToggleTwiceIsIdentity ==
  [][/\ last'.op = "ToggleCollapse" => toggleCollapse(nodes', last'.arg) = nodes
     /\ last'.op = "ToggleContent" => toggleContent(nodes', last'.arg) = nodes]_vars

\* C37 (amended): toggle content twice gives back the whole node set; toggle
\* collapse twice gives back the flags of every node and the position and
\* height of every visible node, and the whole node set when the node was not
\* collapsed before the first toggle.
C37_ToggleTwiceRestoresShown ==
  [][/\ last'.op = "ToggleContent" => toggleContent(nodes', last'.arg) = nodes
     /\ last'.op = "ToggleCollapse" =>
          LET twice == toggleCollapse(nodes', last'.arg) IN
            IF HasId(nodes, last'.arg) /\ Find(nodes, last'.arg).collapsed
              THEN SameFlagsIn(twice, nodes) /\ SamePlacesIn(twice, visibleNodes(nodes))
              ELSE twice = nodes]_vars

\* a node with children has been folded and unfolded again by two toggles,
\* and the store is the one the run started with
C37_Witness ==
  /\ last.op = "ToggleCollapse"
  /\ HasId(nodes, last.arg)
  /\ ~Find(nodes, last.arg).collapsed
  /\ \E i \in 1..Len(nodes) : nodes[i].parentId = last.arg
  /\ nodes = computeSmartLayout(GeneratedStore)

(***************************************************************************)
(* Write-back for a placeholder deleted while its batch is in flight       *)
(* (App.tsx 350-377, 196-206).                                             *)
(***************************************************************************)
\* the step settles the call for an item of a detail batch whose placeholder
\* is no longer in the store
SettlesDeletedPlaceholder ==
  /\ last'.op = "DetailAnswer"
  /\ ~HasId(nodes, tasks[last'.arg].items[last'.item].id)

\* C38: when the placeholder of a detail batch (or its subchapter, and the
\* placeholder with it) has been deleted while the batch is in flight, the
\* later success or failure write-back for it neither re-creates it nor
\* changes any other node, and the batch goes on: the item counts as handled,
\* and after the pause the call for the next placeholder is issued, or the
\* batch ends if it was the last.
C38_DeletedPlaceholderStaysGone ==
  [][/\ SettlesDeletedPlaceholder =>
          /\ nodes' = nodes
          /\ tasks'[last'.arg].i = last'.item
          /\ tasks'[last'.arg].phase = "delay"
     /\ \A t \in TaskIds :
          (tasks[t].kind = "subchapter" /\ tasks[t].phase = "delay" /\ tasks'[t].phase # "delay") =>
            IF tasks[t].i < Len(tasks[t].items)
              THEN /\ tasks'[t].phase = "await"
                   /\ Call(t, tasks[t].i + 1, "details") \in calls'
              ELSE tasks'[t].phase = "done"]_vars

\* the first placeholder of a batch of two was deleted before its answer came;
\* the answer has just been written back, the second placeholder is still
\* there and the batch is in its pause before the second call
C38_Witness ==
  /\ last.op = "DetailAnswer"
  /\ last.item < Len(tasks[last.arg].items)
  /\ ~HasId(nodes, tasks[last.arg].items[last.item].id)
  /\ HasId(nodes, tasks[last.arg].items[last.item + 1].id)
  /\ tasks[last.arg].i = last.item
  /\ tasks[last.arg].phase = "delay"

====
